---- MODULE Spec2Model ----
(***************************************************************************)
(* Model of the OAGW mock upstream server                                  *)
(* (testing/e2e/modules/oagw/mock_upstream.py).                            *)
(*                                                                         *)
(* One asyncio task (_client) per accepted connection.  A task runs        *)
(* without interruption between two awaits, so every action below is one   *)
(* resumption of a task: it starts where an await returns (or raises) and  *)
(* runs up to the next await, or to the end of the task.                   *)
(*                                                                         *)
(* A request target is a sequence of one-character strings, so that the    *)
(* regular expressions of the router are matched character by character.   *)
(* A JSON document is modelled by the value json.dumps serialises.         *)
(***************************************************************************)
EXTENDS Integers, Sequences, FiniteSets, TLC

\* ------------------------------------------------------------------ bounds

\* Connections the server accepts during one run.
NumConns == 2

\* Pieces in which a peer delivers its header block: the first piece holds the
\* request line, the last one completes the terminator \r\n\r\n.
ReqChunks == 2

\* Longest <x> tried in /error/<x> and /status/<x>.
MaxTail == 3

Conns == 1..NumConns

\* ------------------------------------------------------- request targets

P_health == <<"/", "h", "e", "a", "l", "t", "h">>

P_echo == <<"/", "e", "c", "h", "o">>

P_chat == <<"/", "v", "1", "/", "c", "h", "a", "t", "/", "c", "o", "m", "p", "l", "e", "t", "i", "o", "n", "s">>

P_stream == P_chat \o <<"/", "s", "t", "r", "e", "a", "m">>

P_models == <<"/", "v", "1", "/", "m", "o", "d", "e", "l", "s">>

P_errorPrefix == <<"/", "e", "r", "r", "o", "r", "/">>

P_statusPrefix == <<"/", "s", "t", "a", "t", "u", "s", "/">>

P_timeout == P_errorPrefix \o <<"t", "i", "m", "e", "o", "u", "t">>

P_nope == <<"/", "n", "o", "p", "e">>

P_root == <<"/">>

\* ARABIC-INDIC DIGIT THREE (U+0663), a character of Unicode category Nd.
UDigit3 == "U+0663"

AsciiDigits == {"0", "1", "2", "3", "4", "5", "6", "7", "8", "9"}

\* \d of a str pattern: any Unicode decimal digit (category Nd).
IsDigit(ch) == ch \in AsciiDigits \cup {UDigit3}

\* int() of one decimal digit.
DigitVal(ch) ==
    CASE ch = "0" -> 0 [] ch = "1" -> 1 [] ch = "2" -> 2 [] ch = "3" -> 3
      [] ch = "4" -> 4 [] ch = "5" -> 5 [] ch = "6" -> 6 [] ch = "7" -> 7
      [] ch = "8" -> 8 [] ch = "9" -> 9 [] ch = UDigit3 -> 3

\* int(m.group(1)): the decimal value of a non-empty sequence of digits.
RECURSIVE ToInt(_)
ToInt(ds) ==
    IF ds = <<>> THEN 0
    ELSE 10 * ToInt(SubSeq(ds, 1, Len(ds) - 1)) + DigitVal(ds[Len(ds)])

\* m.group(1) of re.fullmatch(prefix(\d+), path).
Capture(prefix, path) == SubSeq(path, Len(prefix) + 1, Len(path))

\* re.fullmatch(prefix(\d*), path) is not None.
FullMatchStar(prefix, path) ==
    /\ Len(path) >= Len(prefix)
    /\ SubSeq(path, 1, Len(prefix)) = prefix
    /\ \A k \in (Len(prefix) + 1)..Len(path) : IsDigit(path[k])

\* re.fullmatch(prefix(\d+), path) is not None.
FullMatch(prefix, path) ==
    /\ Len(path) > Len(prefix)
    /\ SubSeq(path, 1, Len(prefix)) = prefix
    /\ \A k \in (Len(prefix) + 1)..Len(path) : IsDigit(path[k])

\* ------------------------------------------------------------ responses

\* _HTTP_REASONS.get(status, "Unknown")
Reason(status) ==
    CASE status = 200 -> "OK"
      [] status = 201 -> "Created"
      [] status = 204 -> "No Content"
      [] status = 400 -> "Bad Request"
      [] status = 401 -> "Unauthorized"
      [] status = 403 -> "Forbidden"
      [] status = 404 -> "Not Found"
      [] status = 405 -> "Method Not Allowed"
      [] status = 409 -> "Conflict"
      [] status = 500 -> "Internal Server Error"
      [] status = 502 -> "Bad Gateway"
      [] status = 503 -> "Service Unavailable"
      [] OTHER -> "Unknown"

\* A buffered response whose header block asks to keep the connection.
JsonResponseKeepAlive(data, status) ==
    [kind |-> "json", status |-> status, reason |-> Reason(status),
     contentType |-> "application/json", connection |-> "keep-alive",
     body |-> data]

\* _json_response(data, status): status line, headers and body of one buffered
\* response.  data is the value that json.dumps serialises.
JsonResponse(data, status) ==
    [kind |-> "json", status |-> status, reason |-> Reason(status),
     contentType |-> "application/json", connection |-> "close",
     body |-> data]

\* _sse_header()
SseHeader ==
    [kind |-> "sse_header", status |-> 200, reason |-> "OK",
     contentType |-> "text/event-stream", cacheControl |-> "no-cache",
     transferEncoding |-> "chunked", connection |-> "close"]

\* _sse_chunk(data): one HTTP chunk holding the SSE event "data: <data>\n\n".
SseChunk(data) == [kind |-> "chunk", data |-> data]

\* _sse_end(): the zero-length chunk.
SseEnd == [kind |-> "end"]

\* json.dumps(v), as an SSE payload.
Dumps(v) == [json |-> v]

\* The payload "[DONE]".
DoneText == [text |-> "[DONE]"]

Words == <<"Hello", " from", " mock", " server">>

\* delta of the word at 0-based index i, as the loop body builds it.
WordDeltaAllRoles(i) == [role |-> "assistant", content |-> Words[i + 1]]

WordDelta(i) ==
    IF i = 0 THEN [role |-> "assistant", content |-> Words[i + 1]]
    ELSE [content |-> Words[i + 1]]

\* The chat.completion.chunk object around a delta.
ChunkObject(delta, finish) ==
    [id |-> "chatcmpl-mock-stream", object |-> "chat.completion.chunk",
     created |-> 1234567890, model |-> "gpt-4-mock",
     choices |-> <<[index |-> 0, delta |-> delta, finish_reason |-> finish]>>]

\* The frame written for the word at index i.
WordFrame(i) == SseChunk(Dumps(ChunkObject(WordDelta(i), "null")))

\* The frame written for final.
StopFrame == SseChunk(Dumps(ChunkObject(<<>>, "stop")))

DoneFrame == SseChunk(DoneText)

\* What the stream handler writes after the word loop, in order.
StreamTailNoDone == <<StopFrame, SseEnd>>

StreamTail == <<StopFrame, DoneFrame, SseEnd>>

\* bytes.decode("utf-8", errors="replace") of a body whose bytes are ASCII
\* characters or the byte 0xFF, which is valid in no UTF-8 sequence.
DecodeReplace(bs) == [k \in 1..Len(bs) |-> IF bs[k] = "0xFF" THEN "U+FFFD" ELSE bs[k]]

HealthBody == [status |-> "ok"]

EchoBody(headers, body) == [headers |-> headers, body |-> DecodeReplace(body)]

ChatBody ==
    [id |-> "chatcmpl-mock-123", object |-> "chat.completion",
     created |-> 1234567890, model |-> "gpt-4-mock",
     choices |-> <<[index |-> 0,
                    message |-> [role |-> "assistant", content |-> "Hello from mock server"],
                    finish_reason |-> "stop"]>>,
     usage |-> [prompt_tokens |-> 10, completion_tokens |-> 20, total_tokens |-> 30]]

ModelsBody ==
    [object |-> "list",
     data |-> <<[id |-> "gpt-4", object |-> "model", created |-> 1234567890, owned_by |-> "openai"],
                [id |-> "gpt-3.5-turbo", object |-> "model", created |-> 1234567890, owned_by |-> "openai"]>>]

TimeoutBody == [error |-> "timeout"]

ErrorBody(code) ==
    [error |-> [message |-> "Simulated error " \o ToString(code),
                type |-> "server_error",
                code |-> "error_" \o ToString(code)]]

StatusBodyAsError(code) == [status |-> code, description |-> "Simulated error " \o ToString(code)]

StatusBody(code) == [status |-> code, description |-> "Status " \o ToString(code)]

NotFoundBody == [error |-> "not found"]

\* --------------------------------------------------------------- routing

\* The if/elif chain of _handle with the stream branch not testing the method.
RouteStreamAnyMethod(m, p) ==
    IF m = "GET" /\ p = P_health THEN "health"
    ELSE IF m = "POST" /\ p = P_echo THEN "echo"
    ELSE IF p = P_stream THEN "stream"
    ELSE IF m = "POST" /\ p = P_chat THEN "chat"
    ELSE IF m = "GET" /\ p = P_models THEN "models"
    ELSE IF m = "GET" /\ p = P_timeout THEN "timeout"
    ELSE IF m = "GET" /\ FullMatch(P_errorPrefix, p) THEN "error"
    ELSE IF m = "GET" /\ FullMatch(P_statusPrefix, p) THEN "status"
    ELSE "notfound"

\* The chain testing the path with its query string cut off.
RouteIgnoringQuery(m, p) ==
    LET marks == {i \in 1..Len(p) : p[i] = "?"}
        bare == IF marks = {} THEN p
                ELSE SubSeq(p, 1, (CHOOSE i \in marks : \A j \in marks : i <= j) - 1)
    IN  IF m = "GET" /\ bare = P_health THEN "health"
        ELSE IF m = "POST" /\ bare = P_echo THEN "echo"
        ELSE IF m = "POST" /\ bare = P_stream THEN "stream"
        ELSE IF m = "POST" /\ bare = P_chat THEN "chat"
        ELSE IF m = "GET" /\ bare = P_models THEN "models"
        ELSE IF m = "GET" /\ bare = P_timeout THEN "timeout"
        ELSE IF m = "GET" /\ FullMatch(P_errorPrefix, bare) THEN "error"
        ELSE IF m = "GET" /\ FullMatch(P_statusPrefix, bare) THEN "status"
        ELSE "notfound"

\* The branch of _handle's if/elif chain taken for (method, path).
Route(m, p) ==
    IF m = "GET" /\ p = P_health THEN "health"
    ELSE IF m = "POST" /\ p = P_echo THEN "echo"
    ELSE IF m = "POST" /\ p = P_stream THEN "stream"
    ELSE IF m = "POST" /\ p = P_chat THEN "chat"
    ELSE IF m = "GET" /\ p = P_models THEN "models"
    ELSE IF m = "GET" /\ p = P_timeout THEN "timeout"
    ELSE IF m = "GET" /\ FullMatch(P_errorPrefix, p) THEN "error"
    ELSE IF m = "GET" /\ FullMatch(P_statusPrefix, p) THEN "status"
    ELSE "notfound"

\* The names of the branches of _handle's chain that test the request.
BranchNames ==
    {"health", "echo", "stream", "chat", "models", "timeout", "error", "status"}

\* The chain with the chat branch testing the path by its prefix.
MatchesChatPrefix(b, m, p) ==
    CASE b = "health" -> m = "GET" /\ p = P_health
      [] b = "echo" -> m = "POST" /\ p = P_echo
      [] b = "stream" -> m = "POST" /\ p = P_stream
      [] b = "chat" ->
            /\ m = "POST"
            /\ Len(p) >= Len(P_chat)
            /\ SubSeq(p, 1, Len(P_chat)) = P_chat
      [] b = "models" -> m = "GET" /\ p = P_models
      [] b = "timeout" -> m = "GET" /\ p = P_timeout
      [] b = "error" -> m = "GET" /\ FullMatch(P_errorPrefix, p)
      [] b = "status" -> m = "GET" /\ FullMatch(P_statusPrefix, p)

\* The condition of branch b of _handle's chain, taken by itself: what the
\* branch tests when no earlier branch is looked at.
Matches(b, m, p) ==
    CASE b = "health" -> m = "GET" /\ p = P_health
      [] b = "echo" -> m = "POST" /\ p = P_echo
      [] b = "stream" -> m = "POST" /\ p = P_stream
      [] b = "chat" -> m = "POST" /\ p = P_chat
      [] b = "models" -> m = "GET" /\ p = P_models
      [] b = "timeout" -> m = "GET" /\ p = P_timeout
      [] b = "error" -> m = "GET" /\ FullMatch(P_errorPrefix, p)
      [] b = "status" -> m = "GET" /\ FullMatch(P_statusPrefix, p)

\* The buffered response that the branch of a request r writes with one
\* writer.write (every branch but the stream).
Buffered(r) ==
    LET route == Route(r.method, r.path) IN
    CASE route = "health" -> JsonResponse(HealthBody, 200)
      [] route = "echo" -> JsonResponse(EchoBody(r.headers, r.body), 200)
      [] route = "chat" -> JsonResponse(ChatBody, 200)
      [] route = "models" -> JsonResponse(ModelsBody, 200)
      [] route = "timeout" -> JsonResponse(TimeoutBody, 200)
      [] route = "error" ->
            LET code == ToInt(Capture(P_errorPrefix, r.path))
            IN  JsonResponse(ErrorBody(code), code)
      [] route = "status" ->
            LET code == ToInt(Capture(P_statusPrefix, r.path))
            IN  JsonResponse(StatusBody(code), code)
      [] OTHER -> JsonResponse(NotFoundBody, 404)

\* -------------------------------------------------------------- requests

\* What a peer sends: request line (method, path), header mapping and the
\* bytes that follow the header terminator in the same piece.  The requests
\* explored here carry no Content-Length header: the declared length is 0 and
\* _read_request reads nothing after the header block.
Req(m, p) == [method |-> m, path |-> p, headers |-> <<>>, body |-> <<>>]

\* No request: the value of the locals before they are assigned.
NoReq == [method |-> "-", path |-> <<>>, headers |-> <<>>, body |-> <<>>]

\* The requests peers send to concurrent connections.
ReqSet == {Req("POST", P_stream), Req("GET", P_stream), Req("GET", P_timeout)}

TailChars == {"0", "2", "4", "5", "x", "/", UDigit3}

\* The sequences over TailChars of length n.
RECURSIVE TailsOfLen(_)
TailsOfLen(n) ==
    IF n = 0 THEN {<<>>}
    ELSE {Append(t, ch) : t \in TailsOfLen(n - 1), ch \in TailChars}

Tails == UNION {TailsOfLen(n) : n \in 0..MaxTail}

LiteralPaths == {P_health, P_echo, P_stream, P_chat, P_models, P_timeout}

AllPaths ==
    LiteralPaths \cup {P_nope, P_root}
        \cup {P_errorPrefix \o t : t \in Tails}
        \cup {P_statusPrefix \o t : t \in Tails}

Methods == {"GET", "POST", "DELETE"}

\* The requests a single peer may send when the router is explored.
AllRequests == {Req(m, p) : m \in Methods, p \in AllPaths}

\* (method, path, headers, body) as _read_request returns them when the
\* reads delivered the first n pieces of request r and then the terminator
\* or end of stream.  With nothing received the request line is "": its
\* split has one part, so method is "" and path defaults to "/".  The bytes
\* after the terminator come with the last piece.
Parse(r, n) ==
    IF n = 0 THEN [method |-> "", path |-> P_root, headers |-> <<>>, body |-> <<>>]
    ELSE [method |-> r.method, path |-> r.path, headers |-> r.headers,
          body |-> IF n = ReqChunks THEN r.body ELSE <<>>]

\* ------------------------------------------------------- request bytes

\* A byte string is a tuple of bytes; a byte is written as the character it
\* encodes, CR and LF as below, and "0xFF" is the byte valid in no UTF-8
\* sequence.
CR == "<CR>"
LF == "<LF>"
TAB == "<TAB>"

CRLF == <<CR, LF>>

\* b"\r\n\r\n", the end of the header block.
Terminator == <<CR, LF, CR, LF>>

\* The size passed to reader.read in the header loop.
ReadSize == 4096

\* The least index at which pat occurs in s, 0 when it does not.
FindSub(s, pat) ==
    LET I == {i \in 1..(Len(s) - Len(pat) + 1) : SubSeq(s, i, i + Len(pat) - 1) = pat}
    IN  IF I = {} THEN 0 ELSE CHOOSE i \in I : \A j \in I : i <= j

\* s.partition(pat): the part before the first pat and the part after it;
\* the whole of s and nothing when pat does not occur.
Partition(s, pat) ==
    LET i == FindSub(s, pat)
    IN  IF i = 0 THEN [head |-> s, found |-> FALSE, tail |-> <<>>]
        ELSE [head |-> SubSeq(s, 1, i - 1), found |-> TRUE,
              tail |-> SubSeq(s, i + Len(pat), Len(s))]

\* s.split(pat, max): at most max splits, from the left; one part at least.
RECURSIVE SplitOn(_, _, _)
SplitOn(s, pat, max) ==
    LET pt == Partition(s, pat)
    IN  IF max = 0 \/ ~pt.found THEN <<s>>
        ELSE <<pt.head>> \o SplitOn(pt.tail, pat, max - 1)

WhiteSpace == {" ", TAB, CR, LF}

\* s.strip()
Strip(s) ==
    LET I == {i \in 1..Len(s) : s[i] \notin WhiteSpace}
    IN  IF I = {} THEN <<>>
        ELSE SubSeq(s, CHOOSE i \in I : \A j \in I : i <= j,
                       CHOOSE i \in I : \A j \in I : i >= j)

UpperCase == <<"A", "B", "C", "D", "E", "F", "G", "H", "I", "J", "K", "L", "M",
               "N", "O", "P", "Q", "R", "S", "T", "U", "V", "W", "X", "Y", "Z">>
LowerCase == <<"a", "b", "c", "d", "e", "f", "g", "h", "i", "j", "k", "l", "m",
               "n", "o", "p", "q", "r", "s", "t", "u", "v", "w", "x", "y", "z">>

\* s.lower()
Lower(s) ==
    [k \in 1..Len(s) |->
        IF \E i \in 1..Len(UpperCase) : UpperCase[i] = s[k]
        THEN LowerCase[CHOOSE i \in 1..Len(UpperCase) : UpperCase[i] = s[k]]
        ELSE s[k]]

\* The string of the characters of s.
RECURSIVE Join(_)
Join(s) == IF s = <<>> THEN "" ELSE Join(SubSeq(s, 1, Len(s) - 1)) \o s[Len(s)]

\* The digits of a text after its optional sign.
Unsigned(t) == IF t # <<>> /\ t[1] \in {"+", "-"} THEN Tail(t) ELSE t

\* int(t) returns: t, stripped, is an optional sign and one digit or more
\* (texts without underscores); otherwise int raises ValueError.
IsIntText(t) ==
    LET ds == Unsigned(Strip(t))
    IN  ds # <<>> /\ \A i \in 1..Len(ds) : IsDigit(ds[i])

\* int(t) when it returns.
IntText(t) ==
    LET u == Strip(t)
    IN  IF u[1] = "-" THEN 0 - ToInt(Unsigned(u)) ELSE ToInt(Unsigned(u))

\* The header mapping with names and values kept as they were sent.
RECURSIVE HeadersAsSent(_)
HeadersAsSent(lines) ==
    IF lines = <<>> THEN <<>>
    ELSE LET line == lines[Len(lines)]
             before == HeadersAsSent(SubSeq(lines, 1, Len(lines) - 1))
             kv == Partition(line, <<":">>)
         IN  IF kv.found THEN (kv.head :> kv.tail) @@ before ELSE before

\* The header mapping in which the first line of a name is the one kept.
RECURSIVE HeadersFirstWins(_)
HeadersFirstWins(lines) ==
    IF lines = <<>> THEN <<>>
    ELSE LET line == lines[Len(lines)]
             before == HeadersFirstWins(SubSeq(lines, 1, Len(lines) - 1))
             kv == Partition(line, <<":">>)
         IN  IF kv.found
             THEN before @@ (Lower(Strip(kv.head)) :> Strip(kv.tail))
             ELSE before

\* The header mapping built from the lines after the request line: a line
\* with a colon is cut at its first colon, the name stripped and lower-cased,
\* the value stripped; a later line replaces an earlier one of the same name.
RECURSIVE HeadersOf(_)
HeadersOf(lines) ==
    IF lines = <<>> THEN <<>>
    ELSE LET line == lines[Len(lines)]
             before == HeadersOf(SubSeq(lines, 1, Len(lines) - 1))
             kv == Partition(line, <<":">>)
         IN  IF kv.found
             THEN (Lower(Strip(kv.head)) :> Strip(kv.tail)) @@ before
             ELSE before

ContentLengthName ==
    <<"c", "o", "n", "t", "e", "n", "t", "-", "l", "e", "n", "g", "t", "h">>

\* headers.get("content-length", "0")
ContentLengthText(headers) ==
    IF ContentLengthName \in DOMAIN headers THEN headers[ContentLengthName]
    ELSE <<"0">>

\* The locals of _read_request after the header loop ended with data in
\* header_data, up to the header mapping.
ParseHead(data) ==
    LET cut == Partition(data, Terminator)
        text == DecodeReplace(cut.head)
        lines == SplitOn(text, CRLF, Len(text))
        request_line == IF Len(lines) > 0 THEN lines[1] ELSE <<>>
        parts == SplitOn(request_line, <<" ">>, 2)
    IN  [method |-> IF Len(parts) > 0 THEN Join(parts[1]) ELSE "GET",
         path |-> IF Len(parts) > 1 THEN parts[2] ELSE P_root,
         headers |-> HeadersOf(Tail(lines)),
         body_start |-> cut.tail]

\* ----------------------------------------------------------------- state

VARIABLES
    listening,  \* self._server is a listening server
    pc,         \* per connection: the await its task is suspended in
    req,        \* per connection: the request its peer has begun to send
    got,        \* per connection: pieces accumulated in header_data
    parsed,     \* per connection: method, path, headers, body of _client
    idx,        \* per connection: i of the word loop
    out,        \* per connection: what was written to its transport, in order
    flushed,    \* per connection: length of out when a drain last completed
    closes,     \* per connection: calls of writer.close()
    outcome,    \* per connection: how the try block of _client ended
    lenAtFail,  \* per connection: length of out when the exception was raised
    stream,     \* per connection: the bytes its peer sends, when followed byte by byte
    pos,        \* per connection: how many bytes of stream reader.read has returned
    eof,        \* per connection: reader.read has returned b"" (the peer closed)
    now,        \* the clock of the event loop, in seconds, when time is followed
    since,      \* per connection: the clock when its request was dispatched
    server,     \* self._server: 0 for None, or the listener start() stored last
    open,       \* the listeners whose socket is bound and accepting
    made,       \* how many listeners asyncio.start_server has created
    via,        \* per connection: the listener that accepted it (0: none)
    ephemeral,  \* self.port is 0: each bind takes a free port of its own
    waits,      \* Server.wait_closed waits for connections (Python 3.12 on)
    call,       \* where the caller of start() and stop() is
    last,       \* how the last call of start() or stop() ended
    payloads,   \* the SSE payloads a stream is to carry, in order
    wire,       \* the bytes of the response body written so far
    emitted,    \* how many of the payloads have been written
    ended,      \* _sse_end() has been written
    cpc,        \* cmd_e2e: the statement the command is at
    docker,     \* cmd_e2e: args.docker
    docker_env_started,  \* cmd_e2e: the local of that name
    server_process,      \* cmd_e2e: the local of that name is not None
    envUp,      \* the docker-compose environment started by the command is up
    procUp,     \* the hyperspot-server process started by the command runs
    elapsed,    \* wait_for_health: seconds since start
    exit_code,  \* cmd_e2e: pytest's return code (-1: pytest has not run)
    exited      \* the exit status of the command (-1: it has not exited)

vars == <<listening, pc, req, got, parsed, idx, out, flushed, closes, outcome, lenAtFail,
          stream, pos, eof, now, since,
          server, open, made, via, ephemeral, waits, call, last,
          payloads, wire, emitted, ended,
          cpc, docker, docker_env_started, server_process, envUp, procUp, elapsed,
          exit_code, exited>>

\* Reading has ended on c: _read_request returned or raised.
ReadEnded(c) == pc[c] \notin {"free", "read", "read_body"}

\* The variables of the byte-level reader.
rvars == <<stream, pos, eof>>

\* The variables of the clock.
tvars == <<now, since>>

\* The variables of the calls of start() and stop().
lvars == <<server, open, made, via, ephemeral, waits, call, last>>

\* The variables of the body of a stream, byte by byte.
svars == <<payloads, wire, emitted, ended>>

\* The variables of the e2e command of the CI script.
cvars == <<cpc, docker, docker_env_started, server_process, envUp, procUp, elapsed,
           exit_code, exited>>

\* The variables of what a specification does not follow.
ovars == <<lvars, svars, cvars>>

Suspended == {"read", "read_body", "drain_w", "sleep_w", "sleep30", "drain"}

PcValues == {"free", "closed"} \cup Suspended

InitServer ==
    /\ listening = FALSE
    /\ pc = [c \in Conns |-> "free"]
    /\ req = [c \in Conns |-> NoReq]
    /\ got = [c \in Conns |-> 0]
    /\ parsed = [c \in Conns |-> NoReq]
    /\ idx = [c \in Conns |-> 0]
    /\ out = [c \in Conns |-> <<>>]
    /\ flushed = [c \in Conns |-> 0]
    /\ closes = [c \in Conns |-> 0]
    /\ outcome = [c \in Conns |-> "none"]
    /\ lenAtFail = [c \in Conns |-> 0]

\* No call of start() or stop() is followed: the default port, no handle.
IdleLife ==
    /\ server = 0
    /\ open = {}
    /\ made = 0
    /\ via = [c \in Conns |-> 0]
    /\ ephemeral = FALSE
    /\ waits = FALSE
    /\ call = "idle"
    /\ last = "none"

\* No stream is followed byte by byte.
IdleSse ==
    /\ payloads = <<>>
    /\ wire = <<>>
    /\ emitted = 0
    /\ ended = FALSE

\* The e2e command is not followed.
IdleCi ==
    /\ cpc = "check_pytest"
    /\ docker = FALSE
    /\ docker_env_started = FALSE
    /\ server_process = FALSE
    /\ envUp = FALSE
    /\ procUp = FALSE
    /\ elapsed = 0
    /\ exit_code = -1
    /\ exited = -1

Init ==
    /\ InitServer
    /\ IdleLife
    /\ IdleSse
    /\ IdleCi
    /\ stream = [c \in Conns |-> <<>>]
    /\ pos = [c \in Conns |-> 0]
    /\ eof = [c \in Conns |-> FALSE]
    /\ now = 0
    /\ since = [c \in Conns |-> 0]

\* ------------------------------------------------------------- primitives

\* A task suspended in asyncio.sleep(30) holding the event loop, as a
\* blocking sleep would.
HoldsLoopBlockingSleep(c) == pc[c] = "sleep30"

\* Whether the suspended task of c keeps the event loop from running other
\* tasks: every suspension is an await, which returns control to the loop.
HoldsLoop(c) == FALSE

\* The task of c can be resumed by the event loop.
LoopFree(c) == \A d \in Conns \ {c} : ~HoldsLoop(d)

\* One transport for all tasks.
WriterShared(c) == 1

\* The transport behind the writer that the task of c passes to _handle.
Writer(c) == c

\* A write that sends again the first thing written on an earlier answered
\* connection, kept in a server-level cache, instead of items.
WriteCached(c, items) ==
    LET D == {d \in Conns : d # c /\ out[d] # <<>>}
    IN  IF D = {} THEN [out EXCEPT ![c] = @ \o items]
        ELSE [out EXCEPT ![c] = @ \o <<out[CHOOSE d \in D : TRUE][1]>>]

\* writer.write(...) of items, in order.
Write(c, items) == [out EXCEPT ![Writer(c)] = @ \o items]

\* flushed after a drain left pending (no effect on the transport).
FlushedNotAwaited(c) == flushed

\* flushed after await writer.drain() has returned.
FlushedAfterDrain(c) == [flushed EXCEPT ![c] = Len(out[c])]

\* writer.close()
CloseWriter(c) == [closes EXCEPT ![c] = @ + 1]

\* closes when the connection is closed only at the end of the try block.
FinallyOnlyNormal(c, raised) == IF raised THEN closes ELSE CloseWriter(c)

\* closes after the finally clause of _client.
Finally(c, raised) == CloseWriter(c)

\* out after an except clause that answers with a 500 response.
ExceptWrites500(c) == Write(c, <<JsonResponse([error |-> "internal"], 500)>>)

\* out after the except clause of _client: pass.
ExceptClause(c) == out

\* An exception or a cancellation reaches the try statement of _client; the
\* locals of the calls it leaves are dropped.
Raise(c, kind) ==
    /\ outcome' = [outcome EXCEPT ![c] = kind]
    /\ got' = [got EXCEPT ![c] = 0]
    /\ lenAtFail' = [lenAtFail EXCEPT ![c] = Len(out[c])]
    /\ out' = IF kind = "exception" THEN ExceptClause(c) ELSE out
    /\ closes' = Finally(c, TRUE)
    /\ pc' = [pc EXCEPT ![c] = "closed"]

\* _read_request returns r; _handle runs up to its first await, or to its
\* end and on to the drain of _client.
Dispatch(c, r) ==
    /\ parsed' = [parsed EXCEPT ![c] = r]
    /\ got' = [got EXCEPT ![c] = 0]
    /\ LET route == Route(r.method, r.path) IN
         IF route = "stream"
         THEN /\ out' = Write(c, <<SseHeader, WordFrame(0)>>)
              /\ idx' = [idx EXCEPT ![c] = 0]
              /\ pc' = [pc EXCEPT ![c] = "drain_w"]
         ELSE IF route = "timeout"
         THEN /\ pc' = [pc EXCEPT ![c] = "sleep30"]
              /\ UNCHANGED <<out, idx>>
         ELSE /\ out' = Write(c, <<Buffered(r)>>)
              /\ pc' = [pc EXCEPT ![c] = "drain"]
              /\ UNCHANGED idx

\* --------------------------------------------------------------- actions

\* start(): asyncio.start_server binds and listens.
Start ==
    /\ ~listening
    /\ listening' = TRUE
    /\ UNCHANGED <<pc, req, got, parsed, idx, out, flushed, closes, outcome, lenAtFail>>

\* stop(): with a server, close it and clear the handle; the tasks of the
\* accepted connections are left alone.
Stop ==
    /\ listening
    /\ listening' = FALSE
    /\ UNCHANGED <<pc, req, got, parsed, idx, out, flushed, closes, outcome, lenAtFail>>

\* A peer connects; the listening server accepts and starts _client, which
\* runs up to its first reader.read.  Connections are numbered in the order
\* of their acceptance.
Accept(c) ==
    /\ listening
    /\ pc[c] = "free"
    /\ \A d \in Conns : d < c => pc[d] # "free"
    /\ pc' = [pc EXCEPT ![c] = "read"]
    /\ UNCHANGED <<listening, req, got, parsed, idx, out, flushed, closes, outcome, lenAtFail>>

\* reader.read(4096) returns bytes of request r that bring header_data to n
\* pieces (the first bytes received tell which request the peer sends): the
\* loop goes on until the terminator is in header_data (n = ReqChunks);
\* then the request is decoded and handled.
ReadData(c, n, r) ==
    /\ pc[c] = "read"
    /\ LoopFree(c)
    /\ n \in (got[c] + 1)..ReqChunks
    /\ got[c] > 0 => r = req[c]
    /\ req' = [req EXCEPT ![c] = r]
    /\ IF n < ReqChunks
       THEN /\ got' = [got EXCEPT ![c] = n]
            /\ UNCHANGED <<pc, parsed, idx, out>>
       ELSE Dispatch(c, Parse(r, n))
    /\ UNCHANGED <<listening, flushed, closes, outcome, lenAtFail>>

\* reader.read(4096) returns b"" (the peer closed): the loop breaks and what
\* was received is decoded and handled.
ReadEof(c) ==
    /\ pc[c] = "read"
    /\ LoopFree(c)
    /\ Dispatch(c, Parse(req[c], got[c]))
    /\ UNCHANGED <<listening, req, flushed, closes, outcome, lenAtFail>>

\* reader.read raises (connection reset).
ReadFault(c) ==
    /\ pc[c] = "read"
    /\ LoopFree(c)
    /\ Raise(c, "exception")
    /\ UNCHANGED <<listening, req, parsed, idx, flushed>>

\* await writer.drain() of the word loop returns; the task goes on to
\* asyncio.sleep(0.01).
DrainWord(c) ==
    /\ pc[c] = "drain_w"
    /\ LoopFree(c)
    /\ flushed' = FlushedAfterDrain(c)
    /\ pc' = [pc EXCEPT ![c] = "sleep_w"]
    /\ UNCHANGED <<listening, req, got, parsed, idx, out, closes, outcome, lenAtFail>>

\* asyncio.sleep(0.01) returns: the next word frame is written, or after the
\* last word the stop frame, the [DONE] frame and the terminating chunk, and
\* _handle returns to the drain of _client.
SleepWord(c) ==
    /\ pc[c] = "sleep_w"
    /\ LoopFree(c)
    /\ IF idx[c] + 1 < Len(Words)
       THEN /\ idx' = [idx EXCEPT ![c] = @ + 1]
            /\ out' = Write(c, <<WordFrame(idx[c] + 1)>>)
            /\ pc' = [pc EXCEPT ![c] = "drain_w"]
       ELSE /\ out' = Write(c, StreamTail)
            /\ pc' = [pc EXCEPT ![c] = "drain"]
            /\ UNCHANGED idx
    /\ UNCHANGED <<listening, req, got, parsed, flushed, closes, outcome, lenAtFail>>

\* asyncio.sleep(30) returns: the response is written and _handle returns to
\* the drain of _client.
Sleep30(c) ==
    /\ pc[c] = "sleep30"
    /\ LoopFree(c)
    /\ out' = Write(c, <<Buffered(parsed[c])>>)
    /\ pc' = [pc EXCEPT ![c] = "drain"]
    /\ UNCHANGED <<listening, req, got, parsed, idx, flushed, closes, outcome, lenAtFail>>

\* After the drain the task goes back to read a further request.
DrainKeepAlive(c) ==
    /\ pc[c] = "drain"
    /\ LoopFree(c)
    /\ flushed' = FlushedAfterDrain(c)
    /\ pc' = [pc EXCEPT ![c] = "read"]
    /\ UNCHANGED <<listening, req, got, parsed, idx, out, closes, outcome, lenAtFail>>

\* The writer is closed without the drain of _client being awaited.
DrainNotAwaited(c) ==
    /\ pc[c] = "drain"
    /\ LoopFree(c)
    /\ outcome' = [outcome EXCEPT ![c] = "ok"]
    /\ closes' = Finally(c, FALSE)
    /\ pc' = [pc EXCEPT ![c] = "closed"]
    /\ UNCHANGED <<listening, req, got, parsed, idx, out, flushed, lenAtFail>>

\* await writer.drain() of _client returns; finally closes the writer.
Drain(c) ==
    /\ pc[c] = "drain"
    /\ LoopFree(c)
    /\ flushed' = FlushedAfterDrain(c)
    /\ outcome' = [outcome EXCEPT ![c] = "ok"]
    /\ closes' = Finally(c, FALSE)
    /\ pc' = [pc EXCEPT ![c] = "closed"]
    /\ UNCHANGED <<listening, req, got, parsed, idx, out, lenAtFail>>

\* await writer.drain() raises (connection reset), in the word loop or in
\* _client.
DrainFault(c) ==
    /\ pc[c] \in {"drain_w", "drain"}
    /\ LoopFree(c)
    /\ Raise(c, "exception")
    /\ UNCHANGED <<listening, req, parsed, idx, flushed>>

\* The task is cancelled while suspended: CancelledError is raised at its
\* await; except Exception does not catch it, finally runs.
Cancel(c) ==
    /\ pc[c] \in Suspended
    /\ LoopFree(c)
    /\ Raise(c, "cancelled")
    /\ UNCHANGED <<listening, req, parsed, idx, flushed>>

\* The requests of R that the peer of c may be sending.
Sending(c, R) == IF got[c] = 0 THEN R ELSE {req[c]}

\* A resumption of the task of c that ends without an exception, its peer
\* sending a request of R.
Progress(c, R) ==
    \/ pc[c] = "read" /\ \E n \in 1..ReqChunks, r \in Sending(c, R) : ReadData(c, n, r)
    \/ ReadEof(c)
    \/ DrainWord(c)
    \/ SleepWord(c)
    \/ Sleep30(c)
    \/ Drain(c)

\* A resumption of the task of c with an exception or a cancellation.
Fail(c) ==
    \/ ReadFault(c)
    \/ DrainFault(c)
    \/ Cancel(c)

TaskStep(c) == Progress(c, ReqSet) \/ Fail(c)

Next ==
    \/ Start /\ UNCHANGED <<rvars, tvars, ovars>>
    \/ Stop /\ UNCHANGED <<rvars, tvars, ovars>>
    \/ \E c \in Conns : Accept(c) /\ UNCHANGED <<rvars, tvars, ovars>>
    \/ \E c \in Conns : Progress(c, ReqSet) /\ UNCHANGED <<rvars, tvars, ovars>>
    \/ \E c \in Conns : Fail(c) /\ UNCHANGED <<rvars, tvars, ovars>>

Spec == Init /\ [][Next]_vars

\* One connection, any request of AllRequests, no transport fault.
NextRoute ==
    \/ Start /\ UNCHANGED <<rvars, tvars, ovars>>
    \/ Accept(1) /\ UNCHANGED <<rvars, tvars, ovars>>
    \/ Progress(1, AllRequests) /\ UNCHANGED <<rvars, tvars, ovars>>

SpecRoute == Init /\ [][NextRoute]_vars

\* ------------------------------------------------- the reader, by bytes

MaxHeaders == 2
MaxChunk == 4

\* The numbers of bytes one reader.read is followed returning when avail
\* bytes of the stream are left: a few, or all of them.
ChunkSizes(avail) == {k \in 1..avail : k <= MaxChunk \/ k = avail}

EchoLine == <<"P", "O", "S", "T", " ", "/", "e", "c", "h", "o">>

\* Request lines a peer sends: two tokens, three tokens, two spaces after
\* the method, one token, none.
RequestLines ==
    { EchoLine,
      <<"G", "E", "T", " ", "/", "h", "e", "a", "l", "t", "h", " ",
        "H", "T", "T", "P", "/", "1", ".", "1">>,
      <<"P", "O", "S", "T", " ", " ", "/", "e", "c", "h", "o">>,
      <<"G", "E", "T">>,
      <<>> }

\* Request lines that differ from a known request by the case of the method,
\* a query string or a trailing slash.
LowerCaseHealthLine == <<"g", "e", "t", " ", "/", "h", "e", "a", "l", "t", "h">>

HealthQueryLine == <<"G", "E", "T", " ", "/", "h", "e", "a", "l", "t", "h", "?", "x", "=", "1">>

HealthSlashLine == <<"G", "E", "T", " ", "/", "h", "e", "a", "l", "t", "h", "/">>

StatusQueryLine ==
    <<"G", "E", "T", " ", "/", "s", "t", "a", "t", "u", "s", "/", "2", "0", "0", "?", "x", "=", "1">>

NearMissLines == {LowerCaseHealthLine, HealthQueryLine, HealthSlashLine, StatusQueryLine}

\* Header lines a peer sends: a numeric and a non-numeric Content-Length, a
\* name in two spellings with spaces around name and value, a line without
\* a colon that holds a byte invalid in UTF-8.
HeaderLines ==
    { <<"C", "o", "n", "t", "e", "n", "t", "-", "L", "e", "n", "g", "t", "h", ":", " ", "2">>,
      <<"C", "o", "n", "t", "e", "n", "t", "-", "L", "e", "n", "g", "t", "h", ":", " ", "x">>,
      <<"X", "-", "A", " ", ":", " ", "1", " ">>,
      <<"x", "-", "a", ":", "2">>,
      <<"j", "0xFF">> }

\* The sequences of n different header lines.
RECURSIVE HeaderBlocks(_)
HeaderBlocks(n) ==
    IF n = 0 THEN {<<>>}
    ELSE {x \in {Append(b, h) : b \in HeaderBlocks(n - 1), h \in HeaderLines} :
            \A i \in 1..(n - 1) : x[i] # x[n]}

\* The bytes a peer sends after the terminator.
Bodies == {<<>>, <<"a", "0xFF">>, <<"a", "b", "c">>}

\* The lines of a block, each followed by CRLF.
RECURSIVE JoinLines(_)
JoinLines(b) == IF b = <<>> THEN <<>> ELSE b[1] \o CRLF \o JoinLines(Tail(b))

\* The byte stream of a request line, header lines, the empty line and the
\* bytes after it.
StreamOf(l, b, body) == JoinLines(<<l>> \o b) \o CRLF \o body

\* The byte streams peers send: every request line without headers, and
\* POST /echo with every block of header lines.  A peer may close after any
\* prefix of its stream.
ReadStreams ==
    {StreamOf(l, <<>>, body) : l \in RequestLines, body \in Bodies}
        \cup {StreamOf(l, <<>>, <<>>) : l \in NearMissLines}
        \cup {StreamOf(EchoLine, b, body) :
                b \in UNION {HeaderBlocks(n) : n \in 1..MaxHeaders},
                body \in Bodies}

InitRead ==
    /\ InitServer
    /\ IdleLife
    /\ IdleSse
    /\ IdleCi
    /\ stream \in {[c \in Conns |-> IF c = 1 THEN s ELSE <<>>] : s \in ReadStreams}
    /\ pos = [c \in Conns |-> 0]
    /\ eof = [c \in Conns |-> FALSE]
    /\ now = 0
    /\ since = [c \in Conns |-> 0]

\* The bytes reader.read has returned on c so far: header_data in the header
\* loop; header block, terminator and body in the body loop.
Received(c) == SubSeq(stream[c], 1, pos[c])

\* (method, path, headers, body) of the locals h, the body being what
\* follows the terminator in the bytes read so far.
Request(h) ==
    [method |-> h.method, path |-> h.path, headers |-> h.headers, body |-> h.body_start]

\* int(headers.get("content-length", "0")) raising ValueError ends the task
\* as any exception does.
IntRaises(text) == ~IsIntText(text)

\* content_length when int() returned.
ContentLength(h) == IntText(ContentLengthText(h.headers))

\* body = body_start: all the bytes that followed the terminator in the
\* reads of the header loop.
BodyStart(h) == h

\* The header loop of _read_request ended with data in header_data: the
\* request line and the headers are decoded, content_length converted, and
\* the body loop entered.  It awaits reader.read when the body is short of
\* content_length; at end of stream that read returns b"" at once and the
\* loop breaks.  Otherwise _read_request returns and _handle runs.
AfterHeader(c, data, closed) ==
    LET h == ParseHead(data) IN
    IF IntRaises(ContentLengthText(h.headers))
    THEN /\ Raise(c, "exception")
         /\ UNCHANGED <<parsed, idx>>
    ELSE IF Len(BodyStart(h).body_start) < ContentLength(h) /\ ~closed
    THEN /\ pc' = [pc EXCEPT ![c] = "read_body"]
         /\ UNCHANGED <<got, parsed, idx, out, closes, outcome, lenAtFail>>
    ELSE /\ Dispatch(c, Request(BodyStart(h)))
         /\ UNCHANGED <<closes, outcome, lenAtFail>>

\* reader.read(4096) returns the next k bytes of the stream (any number the
\* peer has sent, up to the size asked for); the header loop goes on until
\* the terminator is in header_data.
RdHeader(c, k) ==
    /\ pc[c] = "read"
    /\ ~eof[c]
    /\ k \in ChunkSizes(Len(stream[c]) - pos[c])
    /\ k <= ReadSize
    /\ pos' = [pos EXCEPT ![c] = pos[c] + k]
    /\ LET data == SubSeq(stream[c], 1, pos[c] + k) IN
         IF FindSub(data, Terminator) = 0
         THEN UNCHANGED <<pc, got, parsed, idx, out, closes, outcome, lenAtFail>>
         ELSE AfterHeader(c, data, FALSE)
    /\ UNCHANGED <<listening, req, flushed, stream, eof>>

\* The read of the header loop gives up after a time limit: the loop breaks
\* though the peer has not closed.
RdHeaderTimeout(c) ==
    /\ pc[c] = "read"
    /\ AfterHeader(c, Received(c), TRUE)
    /\ UNCHANGED <<listening, req, flushed, stream, pos, eof>>

\* reader.read(4096) returns b"": the peer closed after the bytes received
\* so far, and the header loop breaks.
RdHeaderEof(c) ==
    /\ pc[c] = "read"
    /\ eof' = [eof EXCEPT ![c] = TRUE]
    /\ AfterHeader(c, Received(c), TRUE)
    /\ UNCHANGED <<listening, req, flushed, stream, pos>>

\* reader.read(content_length - len(body)) returns the next k bytes; the
\* body loop goes on until body has content_length bytes.
RdBody(c, k) ==
    /\ pc[c] = "read_body"
    /\ ~eof[c]
    /\ LET h == ParseHead(Received(c))
           need == ContentLength(h) - Len(h.body_start)
       IN  /\ k \in 1..(Len(stream[c]) - pos[c])
           /\ k <= need
           /\ pos' = [pos EXCEPT ![c] = pos[c] + k]
           /\ IF k < need
              THEN UNCHANGED <<pc, got, parsed, idx, out>>
              ELSE Dispatch(c, Request(ParseHead(SubSeq(stream[c], 1, pos[c] + k))))
    /\ UNCHANGED <<listening, req, flushed, closes, outcome, lenAtFail, stream, eof>>

\* reader.read(content_length - len(body)) returns b"": the body loop
\* breaks with the body received so far.
RdBodyEof(c) ==
    /\ pc[c] = "read_body"
    /\ eof' = [eof EXCEPT ![c] = TRUE]
    /\ Dispatch(c, Request(ParseHead(Received(c))))
    /\ UNCHANGED <<listening, req, flushed, closes, outcome, lenAtFail, stream, pos>>

\* One connection followed byte by byte, no transport fault.
NextRead ==
    \/ Start /\ UNCHANGED <<rvars, tvars, ovars>>
    \/ Accept(1) /\ UNCHANGED <<rvars, tvars, ovars>>
    \/ /\ pc[1] = "read"
       /\ \E k \in ChunkSizes(Len(stream[1]) - pos[1]) : RdHeader(1, k)
       /\ UNCHANGED <<tvars, ovars>>
    \/ RdHeaderEof(1) /\ UNCHANGED <<tvars, ovars>>
    \/ /\ pc[1] = "read_body"
       /\ \E k \in 1..(Len(stream[1]) - pos[1]) : RdBody(1, k)
       /\ UNCHANGED <<tvars, ovars>>
    \/ RdBodyEof(1) /\ UNCHANGED <<tvars, ovars>>
    \/ Drain(1) /\ UNCHANGED <<rvars, tvars, ovars>>

SpecRead == InitRead /\ [][NextRead]_vars

\* --------------------------------------------------- the delay, timed

\* The delay of asyncio.sleep in the GET /error/timeout branch, in seconds.
SleepSeconds == 30

MaxTime == 32

\* The requests sent when time is followed: the delayed one and one that is
\* answered at once.
TimedRequests == {Req("GET", P_timeout), Req("GET", P_health)}

\* asyncio.sleep returns at once, whatever the delay.
TimerDueAtOnce(c) == TRUE

\* asyncio.sleep(30) of the task of c may return: 30 seconds have passed
\* since it was called, in the step that dispatched the request.
TimerDue(c) == now >= since[c] + SleepSeconds

\* A second passes.
Tick ==
    /\ now < MaxTime
    /\ now' = now + 1
    /\ UNCHANGED <<listening, pc, req, got, parsed, idx, out, flushed, closes, outcome,
                   lenAtFail, rvars, since, ovars>>

\* A read step of c that may dispatch its request: the clock of the dispatch
\* is kept.
TimedRead(c) ==
    /\ \/ pc[c] = "read" /\ \E n \in 1..ReqChunks, r \in Sending(c, TimedRequests) :
                                ReadData(c, n, r)
       \/ ReadEof(c)
    /\ since' = [since EXCEPT ![c] = IF ReadEnded(c)' THEN now ELSE since[c]]
    /\ UNCHANGED <<rvars, now, ovars>>

\* One connection with the clock followed, no transport fault.
NextTimed ==
    \/ Start /\ UNCHANGED <<rvars, tvars, ovars>>
    \/ Accept(1) /\ UNCHANGED <<rvars, tvars, ovars>>
    \/ TimedRead(1)
    \/ TimerDue(1) /\ Sleep30(1) /\ UNCHANGED <<rvars, tvars, ovars>>
    \/ Drain(1) /\ UNCHANGED <<rvars, tvars, ovars>>
    \/ Tick

SpecTimed == Init /\ [][NextTimed]_vars

\* ------------------------------------------- several buffered requests

\* The requests sent when statelessness is explored: all answered with one
\* buffered response.
StatelessRequests == {Req("GET", P_health), Req("GET", P_nope), Req("POST", P_chat)}

\* A resumption of the task of c that reads or drains.
BufferedStep(c) ==
    \/ pc[c] = "read" /\ \E n \in 1..ReqChunks, r \in Sending(c, StatelessRequests) :
                            ReadData(c, n, r)
    \/ ReadEof(c)
    \/ Drain(c)

\* Concurrent connections sending buffered requests, with transport faults
\* and cancellations, the server started and stopped at any time.
NextStateless ==
    \/ Start /\ UNCHANGED <<rvars, tvars, ovars>>
    \/ Stop /\ UNCHANGED <<rvars, tvars, ovars>>
    \/ \E c \in Conns : Accept(c) /\ UNCHANGED <<rvars, tvars, ovars>>
    \/ \E c \in Conns : BufferedStep(c) /\ UNCHANGED <<rvars, tvars, ovars>>
    \/ \E c \in Conns : Fail(c) /\ UNCHANGED <<rvars, tvars, ovars>>

SpecStateless == Init /\ [][NextStateless]_vars

\* ------------------------------------------- the calls of start and stop

MaxStarts == 2

\* The requests sent when the calls of start() and stop() are followed: the
\* delayed one and one that is answered at once.
LifeRequests == {Req("GET", P_timeout), Req("GET", P_health)}

\* What a specification of the calls does not follow.
restLife == <<rvars, tvars, svars, cvars>>

\* Everything the model holds about the connections.
connvars == <<pc, req, got, parsed, idx, out, flushed, closes, outcome, lenAtFail>>

\* __init__: no server; the port is the default, or one given by the
\* caller, or 0.  The build decides what Server.wait_closed waits for.
InitLife ==
    /\ InitServer
    /\ stream = [c \in Conns |-> <<>>]
    /\ pos = [c \in Conns |-> 0]
    /\ eof = [c \in Conns |-> FALSE]
    /\ now = 0
    /\ since = [c \in Conns |-> 0]
    /\ server = 0
    /\ open = {}
    /\ made = 0
    /\ via = [c \in Conns |-> 0]
    /\ ephemeral \in BOOLEAN
    /\ waits \in BOOLEAN
    /\ call = "idle"
    /\ last = "none"
    /\ IdleSse
    /\ IdleCi

\* The connections accepted by listener l that are not closed.
Active(l) == {c \in Conns : via[c] = l /\ pc[c] # "closed"}

\* start(): asyncio.start_server binds (self.host, self.port) and listens;
\* the new server is stored in self._server, whatever it held.  The bind
\* succeeds when no listener holds the port, and always with port 0.
StartServer ==
    /\ call = "idle"
    /\ made < MaxStarts
    /\ ephemeral \/ open = {}
    /\ made' = made + 1
    /\ open' = open \cup {made + 1}
    /\ server' = made + 1
    /\ listening' = TRUE
    /\ last' = "started"
    /\ UNCHANGED <<connvars, via, ephemeral, waits, call, restLife>>

\* start() with the port held by a listener: asyncio.start_server raises
\* OSError (address in use) and self._server is not assigned.
StartRaises ==
    /\ call = "idle"
    /\ ~ephemeral
    /\ open # {}
    /\ last' = "OSError"
    /\ UNCHANGED <<listening, connvars, server, open, made, via, ephemeral, waits, call,
                   restLife>>

\* stop() with a server: self._server.close() closes the listening socket
\* of that server; wait_closed() returns at once, or suspends while
\* connections of the server are open (Python 3.12 on); then the handle is
\* cleared.
StopServer ==
    /\ call = "idle"
    /\ server # 0
    /\ open' = open \ {server}
    /\ listening' = (open' # {})
    /\ IF waits /\ Active(server) # {}
       THEN /\ call' = "stopping"
            /\ UNCHANGED <<server, last>>
       ELSE /\ server' = 0
            /\ last' = "stopped"
            /\ UNCHANGED call
    /\ UNCHANGED <<connvars, made, via, ephemeral, waits, restLife>>

\* wait_closed() returns when the last connection of the server has closed.
StopReturn ==
    /\ call = "stopping"
    /\ Active(server) = {}
    /\ server' = 0
    /\ call' = "idle"
    /\ last' = "stopped"
    /\ UNCHANGED <<listening, connvars, open, made, via, ephemeral, waits, restLife>>

\* stop() without a server: the if is not entered.
StopNoop ==
    /\ call = "idle"
    /\ server = 0
    /\ last' = "noop"
    /\ UNCHANGED <<listening, connvars, server, open, made, via, ephemeral, waits, call,
                   restLife>>

\* A peer connects to the port of listener l, which accepts.
AcceptOn(c, l) ==
    /\ l \in open
    /\ Accept(c)
    /\ via' = [via EXCEPT ![c] = l]
    /\ UNCHANGED <<server, open, made, ephemeral, waits, call, last, restLife>>

\* A resumption of the task of c.
LifeStep(c) ==
    /\ \/ pc[c] = "read" /\ \E n \in 1..ReqChunks, r \in Sending(c, LifeRequests) :
                                ReadData(c, n, r)
       \/ ReadEof(c)
       \/ Sleep30(c)
       \/ Drain(c)
    /\ UNCHANGED <<lvars, restLife>>

\* One caller of start() and stop(), peers that connect to any open
\* listener, no transport fault.
NextLife ==
    \/ StartServer
    \/ StartRaises
    \/ StopServer
    \/ StopReturn
    \/ StopNoop
    \/ \E c \in Conns, l \in 1..MaxStarts : AcceptOn(c, l)
    \/ \E c \in Conns : LifeStep(c)

SpecLife == InitLife /\ [][NextLife]_vars

\* --------------------------------------------- the body of a stream

MaxEvents == 3

\* "0123456789abcdef"
HexDigits == <<"0", "1", "2", "3", "4", "5", "6", "7", "8", "9", "a", "b", "c", "d", "e", "f">>

\* f"{n}": n in decimal.
RECURSIVE Decimal(_)
Decimal(n) == IF n < 10 THEN <<HexDigits[n + 1]>>
              ELSE Decimal(n \div 10) \o <<HexDigits[(n % 10) + 1]>>

\* f"{n:x}": n in hexadecimal, lower case, no leading zero.
RECURSIVE Hex(_)
Hex(n) == IF n < 16 THEN <<HexDigits[n + 1]>>
          ELSE Hex(n \div 16) \o <<HexDigits[(n % 16) + 1]>>

\* The UTF-8 bytes of one character: an ASCII character is one byte.
Utf8Of(ch) ==
    IF ch = UDigit3 THEN <<"0xD9", "0xA3">>
    ELSE IF ch = "U+FFFD" THEN <<"0xEF", "0xBF", "0xBD">>
    ELSE <<ch>>

\* str.encode()
RECURSIVE Encode(_)
Encode(text) == IF text = <<>> THEN <<>> ELSE Utf8Of(text[1]) \o Encode(Tail(text))

\* f"data: {data}\n\n"
SseEvent(data) == <<"d", "a", "t", "a", ":", " ">> \o data \o <<LF, LF>>

\* _sse_chunk with the length written in decimal.
SseChunkDecimal(data) ==
    LET payload == Encode(SseEvent(data))
    IN  Encode(Decimal(Len(payload)) \o CRLF) \o payload \o CRLF

\* _sse_chunk(data), byte by byte.
SseChunkBytes(data) ==
    LET payload == Encode(SseEvent(data))
    IN  Encode(Hex(Len(payload)) \o CRLF) \o payload \o CRLF

\* _sse_end(), byte by byte.
SseEndBytes == <<"0", CR, LF, CR, LF>>

\* Payloads as the stream handler passes them: "[DONE]" and texts returned
\* by json.dumps, which hold no line break and no character beyond ASCII.
DoneChars == <<"[", "D", "O", "N", "E", "]">>

SsePayloads ==
    { DoneChars,
      <<"{", "}">>,
      <<"{", "\"", "a", "\"", ":", " ", "1", "}">>,
      <<"{", "\"", "c", "o", "n", "t", "e", "n", "t", "\"", ":", " ", "\"", " ", "f", "r", "o", "m", "\"", "}">>,
      <<"\"", "a", "\\", "n", "b", "\"">> }

\* The sequences of n payloads.
RECURSIVE PayloadSeqs(_)
PayloadSeqs(n) ==
    IF n = 0 THEN {<<>>}
    ELSE {Append(q, x) : q \in PayloadSeqs(n - 1), x \in SsePayloads}

\* A stream handler is about to write the events of some payloads.
InitSse ==
    /\ InitServer
    /\ stream = [c \in Conns |-> <<>>]
    /\ pos = [c \in Conns |-> 0]
    /\ eof = [c \in Conns |-> FALSE]
    /\ now = 0
    /\ since = [c \in Conns |-> 0]
    /\ IdleLife
    /\ IdleCi
    /\ payloads \in UNION {PayloadSeqs(n) : n \in 0..MaxEvents}
    /\ wire = <<>>
    /\ emitted = 0
    /\ ended = FALSE

\* What a specification of the body of a stream does not follow.
restSse == <<listening, connvars, rvars, tvars, lvars, cvars>>

\* writer.write(_sse_chunk(data)) for the next payload.
EmitChunk ==
    /\ ~ended
    /\ emitted < Len(payloads)
    /\ wire' = wire \o SseChunkBytes(payloads[emitted + 1])
    /\ emitted' = emitted + 1
    /\ UNCHANGED <<payloads, ended, restSse>>

\* writer.write(_sse_end()) after the last payload.
EmitEnd ==
    /\ ~ended
    /\ emitted = Len(payloads)
    /\ wire' = wire \o SseEndBytes
    /\ ended' = TRUE
    /\ UNCHANGED <<payloads, emitted, restSse>>

NextSse == EmitChunk \/ EmitEnd

SpecSse == InitSse /\ [][NextSse]_vars

\* ------------------------------------------ the e2e command of ci.py

\* timeout_secs of wait_for_health: its default, used after docker compose
\* up; the probe for a running local server; the wait after Popen.
DockerTimeout == 30
ProbeTimeout == 5
LocalTimeout == 30

\* Return codes of pytest, and of a command that failed.
PytestCodes == {0, 1, 2}
FailCodes == {1, 2}

\* What a specification of the e2e command does not follow.
restCi == <<listening, connvars, rvars, tvars, lvars, svars>>

\* cmd_e2e is entered, in docker mode or in local mode.
InitCi ==
    /\ InitServer
    /\ stream = [c \in Conns |-> <<>>]
    /\ pos = [c \in Conns |-> 0]
    /\ eof = [c \in Conns |-> FALSE]
    /\ now = 0
    /\ since = [c \in Conns |-> 0]
    /\ IdleLife
    /\ IdleSse
    /\ cpc = "check_pytest"
    /\ docker \in BOOLEAN
    /\ docker_env_started = FALSE
    /\ server_process = FALSE
    /\ envUp = FALSE
    /\ procUp = FALSE
    /\ elapsed = 0
    /\ exit_code = -1
    /\ exited = -1

\* sys.exit(code): the command ends as it is, no cleanup statement runs.
SysExit(code) ==
    /\ cpc' = "exited"
    /\ exited' = code

\* check_pytest() and kill_existing_server() return.
CheckPytest ==
    /\ cpc = "check_pytest"
    /\ cpc' = IF docker THEN "docker_version" ELSE "wait_probe"
    /\ elapsed' = 0
    /\ UNCHANGED <<docker, docker_env_started, server_process, envUp, procUp, exit_code,
                   exited, restCi>>

\* check_pytest() finds no pytest: sys.exit(1).
PytestMissing ==
    /\ cpc = "check_pytest"
    /\ SysExit(1)
    /\ UNCHANGED <<docker, docker_env_started, server_process, envUp, procUp, elapsed,
                   exit_code, restCi>>

\* docker version and docker compose version succeed.
DockerFound ==
    /\ cpc = "docker_version"
    /\ cpc' = "build"
    /\ UNCHANGED <<docker, docker_env_started, server_process, envUp, procUp, elapsed,
                   exit_code, exited, restCi>>

\* One of them fails: sys.exit(1).
DockerMissing ==
    /\ cpc = "docker_version"
    /\ SysExit(1)
    /\ UNCHANGED <<docker, docker_env_started, server_process, envUp, procUp, elapsed,
                   exit_code, restCi>>

\* run_cmd(build_cmd) returns.
BuildImage ==
    /\ cpc = "build"
    /\ cpc' = "compose_up"
    /\ UNCHANGED <<docker, docker_env_started, server_process, envUp, procUp, elapsed,
                   exit_code, exited, restCi>>

\* run_cmd of the build or of docker compose up: a return code that is not
\* 0 is passed to sys.exit.
CommandFails ==
    /\ cpc \in {"build", "compose_up"}
    /\ \E code \in FailCodes : SysExit(code)
    /\ UNCHANGED <<docker, docker_env_started, server_process, envUp, procUp, elapsed,
                   exit_code, restCi>>

\* docker compose up --force-recreate -d returns 0: the environment is up,
\* docker_env_started = True, and wait_for_health(base_url) is entered.
ComposeUp ==
    /\ cpc = "compose_up"
    /\ envUp' = TRUE
    /\ docker_env_started' = TRUE
    /\ cpc' = "wait_docker"
    /\ elapsed' = 0
    /\ UNCHANGED <<docker, server_process, procUp, exit_code, exited, restCi>>

\* timeout_secs of the wait_for_health the command is in.
TimeoutSecs ==
    CASE cpc = "wait_docker" -> DockerTimeout
      [] cpc = "wait_probe" -> ProbeTimeout
      [] cpc = "wait_local" -> LocalTimeout

Waiting == cpc \in {"wait_docker", "wait_probe", "wait_local"}

\* wait_for_health: /healthz answers 2xx and the function returns; the
\* command goes on to pytest.
HealthReady ==
    /\ Waiting
    /\ cpc' = "pytest"
    /\ UNCHANGED <<docker, docker_env_started, server_process, envUp, procUp, elapsed,
                   exit_code, exited, restCi>>

\* wait_for_health: an attempt that took took seconds fails, the time is
\* within timeout_secs, time.sleep(1).
HealthRetry(took) ==
    /\ Waiting
    /\ elapsed + took <= TimeoutSecs
    /\ elapsed' = elapsed + took + 1
    /\ UNCHANGED <<cpc, docker, docker_env_started, server_process, envUp, procUp,
                   exit_code, exited, restCi>>

\* wait_for_health: an attempt fails and time.time() - start > timeout_secs:
\* sys.exit(1).  It is not caught after docker compose up, nor after Popen.
HealthTimeout(took) ==
    /\ cpc \in {"wait_docker", "wait_local"}
    /\ elapsed + took > TimeoutSecs
    /\ SysExit(1)
    /\ UNCHANGED <<docker, docker_env_started, server_process, envUp, procUp, elapsed,
                   exit_code, restCi>>

\* The probe of local mode times out: SystemExit is caught, no server is
\* running.
ProbeTimeoutCaught(took) ==
    /\ cpc = "wait_probe"
    /\ elapsed + took > TimeoutSecs
    /\ cpc' = "popen"
    /\ UNCHANGED <<docker, docker_env_started, server_process, envUp, procUp, elapsed,
                   exit_code, exited, restCi>>

\* subprocess.Popen(server_cmd, ...) starts cargo run; then
\* wait_for_health(base_url, timeout_secs=30) is entered.
StartLocalServer ==
    /\ cpc = "popen"
    /\ server_process' = TRUE
    /\ procUp' = TRUE
    /\ cpc' = "wait_local"
    /\ elapsed' = 0
    /\ UNCHANGED <<docker, docker_env_started, envUp, exit_code, exited, restCi>>

\* run_cmd_allow_fail(pytest_cmd): exit_code = result.returncode.
RunPytest ==
    /\ cpc = "pytest"
    /\ \E code \in PytestCodes : exit_code' = code
    /\ cpc' = IF docker /\ docker_env_started THEN "compose_down"
              ELSE IF server_process THEN "terminate" ELSE "sys_exit"
    /\ UNCHANGED <<docker, docker_env_started, server_process, envUp, procUp, elapsed,
                   exited, restCi>>

\* docker compose down -v.
ComposeDown ==
    /\ cpc = "compose_down"
    /\ envUp' = FALSE
    /\ cpc' = IF server_process THEN "terminate" ELSE "sys_exit"
    /\ UNCHANGED <<docker, docker_env_started, server_process, procUp, elapsed, exit_code,
                   exited, restCi>>

\* server_process.terminate(); wait(timeout=10) returns: the process ended.
TerminateServer ==
    /\ cpc = "terminate"
    /\ procUp' = FALSE
    /\ cpc' = "sys_exit"
    /\ UNCHANGED <<docker, docker_env_started, server_process, envUp, elapsed, exit_code,
                   exited, restCi>>

\* wait(timeout=10) raises TimeoutExpired: the process still runs.
TerminateTimesOut ==
    /\ cpc = "terminate"
    /\ cpc' = "kill"
    /\ UNCHANGED <<docker, docker_env_started, server_process, envUp, procUp, elapsed,
                   exit_code, exited, restCi>>

\* server_process.kill(); server_process.wait().
KillServer ==
    /\ cpc = "kill"
    /\ procUp' = FALSE
    /\ cpc' = "sys_exit"
    /\ UNCHANGED <<docker, docker_env_started, server_process, envUp, elapsed, exit_code,
                   exited, restCi>>

\* sys.exit(exit_code)
ExitWithPytestCode ==
    /\ cpc = "sys_exit"
    /\ SysExit(exit_code)
    /\ UNCHANGED <<docker, docker_env_started, server_process, envUp, procUp, elapsed,
                   exit_code, restCi>>

NextCi ==
    \/ CheckPytest
    \/ PytestMissing
    \/ DockerFound
    \/ DockerMissing
    \/ BuildImage
    \/ CommandFails
    \/ ComposeUp
    \/ HealthReady
    \/ \E took \in 0..1 : HealthRetry(took)
    \/ \E took \in 0..1 : HealthTimeout(took)
    \/ \E took \in 0..1 : ProbeTimeoutCaught(took)
    \/ StartLocalServer
    \/ RunPytest
    \/ ComposeDown
    \/ TerminateServer
    \/ TerminateTimesOut
    \/ KillServer
    \/ ExitWithPytestCode

SpecCi == InitCi /\ [][NextCi]_vars

TypeOK ==
    /\ listening \in BOOLEAN
    /\ cpc \in {"check_pytest", "docker_version", "build", "compose_up", "wait_docker",
                "wait_probe", "popen", "wait_local", "pytest", "compose_down",
                "terminate", "kill", "sys_exit", "exited"}
    /\ docker \in BOOLEAN
    /\ docker_env_started \in BOOLEAN
    /\ server_process \in BOOLEAN
    /\ envUp \in BOOLEAN
    /\ procUp \in BOOLEAN
    /\ elapsed \in 0..(DockerTimeout + 1)
    /\ exit_code \in {-1} \cup PytestCodes
    /\ exited \in {-1} \cup PytestCodes \cup FailCodes
    /\ payloads \in Seq(SsePayloads)
    /\ emitted \in 0..Len(payloads)
    /\ ended \in BOOLEAN
    /\ server \in 0..made
    /\ open \subseteq 1..made
    /\ made \in 0..MaxStarts
    /\ via \in [Conns -> 0..made]
    /\ ephemeral \in BOOLEAN
    /\ waits \in BOOLEAN
    /\ call \in {"idle", "stopping"}
    /\ last \in {"none", "started", "OSError", "stopped", "noop"}
    /\ pc \in [Conns -> PcValues]
    /\ \A c \in Conns :
         /\ got[c] \in 0..ReqChunks
         /\ idx[c] \in 0..(Len(Words) - 1)
         /\ flushed[c] \in 0..Len(out[c])
         /\ closes[c] \in 0..2
         /\ outcome[c] \in {"none", "ok", "exception", "cancelled"}
         /\ pos[c] \in 0..Len(stream[c])
         /\ eof[c] \in BOOLEAN
         /\ since[c] \in 0..MaxTime
    /\ now \in 0..MaxTime

\* ---------------------------------------------------------- properties

\* The request decoded on c is (m, p).
Is(c, m, p) == parsed[c].method = m /\ parsed[c].path = p

\* What one written item is: the SSE header, a word frame (its content), the
\* stop frame, the [DONE] frame, the terminating chunk or a JSON response.
Label(x) ==
    CASE x.kind = "sse_header" -> "header"
      [] x.kind = "end" -> "end"
      [] x.kind = "json" -> "json"
      [] x.kind = "chunk" ->
            IF "text" \in DOMAIN x.data THEN x.data.text
            ELSE LET choice == x.data.json.choices[1]
                 IN  IF choice.finish_reason = "stop" THEN "stop"
                     ELSE choice.delta.content

Labels(xs) == [k \in 1..Len(xs) |-> Label(xs[k])]

\* Label, with the four word frames not told apart.
FrameKind(x) ==
    LET l == Label(x)
    IN  IF l \in {"header", "end", "json", "stop", "[DONE]"} THEN l ELSE "word"

FrameKinds(xs) == [k \in 1..Len(xs) |-> FrameKind(xs[k])]

IsPrefix(xs, ys) == Len(xs) <= Len(ys) /\ xs = SubSeq(ys, 1, Len(xs))

StreamLabels ==
    <<"header", "Hello", " from", " mock", " server", "stop", "[DONE]", "end">>

\* C1: on a connection without transport fault or cancellation, a POST
\* /v1/chat/completions/stream request is answered by the SSE header, the
\* word frames "Hello", " from", " mock", " server", the stop frame, the
\* [DONE] frame and the terminating chunk, in this order, each once, and
\* nothing else: what is written is at every moment a prefix of that
\* sequence, and the whole of it once the task has ended.
C1_StreamSequence ==
    \A c \in Conns :
        (Is(c, "POST", P_stream) /\ outcome[c] \in {"none", "ok"}) =>
            /\ IsPrefix(Labels(out[c]), StreamLabels)
            /\ outcome[c] = "ok" => Labels(out[c]) = StreamLabels

C1_Witness ==
    \E c \in Conns :
        Is(c, "POST", P_stream) /\ outcome[c] = "ok" /\ Len(out[c]) = Len(StreamLabels)

StreamKinds == <<"header", "word", "word", "word", "word", "stop", "[DONE]", "end">>

\* C2 as stated: a GET /v1/chat/completions/stream request always yields 4
\* word-delta frames, 1 stop frame, 1 [DONE] frame and 1 terminating chunk,
\* in that order.
C2_GetStreams ==
    \A c \in Conns :
        (Is(c, "GET", P_stream) /\ outcome[c] = "ok") =>
            FrameKinds(out[c]) = StreamKinds

\* C2, amended: the streaming route is POST.  A POST
\* /v1/chat/completions/stream request handled without transport fault or
\* cancellation yields exactly 4 word-delta frames, then 1 stop frame, then 1
\* [DONE] frame, then 1 terminating chunk; a GET request for that path is
\* answered by the 404 fallback and yields no frame.
C2_PostStreams ==
    \A c \in Conns :
        outcome[c] = "ok" =>
            /\ Is(c, "POST", P_stream) => FrameKinds(out[c]) = StreamKinds
            /\ Is(c, "GET", P_stream) =>
                  /\ FrameKinds(out[c]) = <<"json">>
                  /\ out[c][1].status = 404

C2_Witness ==
    \E c, d \in Conns :
        /\ Is(c, "POST", P_stream) /\ outcome[c] = "ok"
        /\ Is(d, "GET", P_stream) /\ outcome[d] = "ok" /\ Len(out[d]) = 1

\* The positions of out[c] that hold a JSON chunk object, and the choice in it.
JsonFrames(c) ==
    {k \in 1..Len(out[c]) : out[c][k].kind = "chunk" /\ "json" \in DOMAIN out[c][k].data}

Choice(c, k) == out[c][k].data.json.choices[1]

WordFrames(c) == {k \in JsonFrames(c) : "content" \in DOMAIN Choice(c, k).delta}

StopFrames(c) == {k \in JsonFrames(c) : Choice(c, k).finish_reason = "stop"}

\* C3: in a streamed response the delta of the first word frame, and of no
\* other frame, carries role "assistant"; every word frame has finish_reason
\* null; the stop frame is the only frame with finish_reason "stop" and its
\* delta is empty; a complete response has 4 word frames and 1 stop frame.
C3_FrameContents ==
    \A c \in Conns :
        /\ \A k \in JsonFrames(c) :
              /\ ("role" \in DOMAIN Choice(c, k).delta) <=>
                    (k \in WordFrames(c) /\ \A j \in WordFrames(c) : k <= j)
              /\ "role" \in DOMAIN Choice(c, k).delta =>
                    Choice(c, k).delta.role = "assistant"
              /\ k \in WordFrames(c) => Choice(c, k).finish_reason = "null"
              /\ k \in StopFrames(c) => DOMAIN Choice(c, k).delta = {}
              /\ k \notin WordFrames(c) => k \in StopFrames(c)
        /\ Cardinality(StopFrames(c)) <= 1
        /\ (Is(c, "POST", P_stream) /\ outcome[c] = "ok") =>
              /\ Cardinality(WordFrames(c)) = Len(Words)
              /\ Cardinality(StopFrames(c)) = 1

C3_Witness ==
    \E c \in Conns :
        /\ outcome[c] = "ok"
        /\ Cardinality(WordFrames(c)) = Len(Words)
        /\ Cardinality(StopFrames(c)) = 1

\* The positions of out[c] that hold a frame of the stream (not the header).
Frames(c) == {k \in 1..Len(out[c]) : out[c][k].kind \in {"chunk", "end"}}

\* C4 as stated: for every pair of consecutive frames of a streamed response,
\* the later one is written only when the write and the flush (drain) of the
\* earlier one have completed: a frame that has a successor is flushed.
C4_FlushBetweenAllFrames ==
    \A c \in Conns :
        \A k \in Frames(c) : k < Len(out[c]) => k <= flushed[c]

\* C4, amended: frames are written in the order of the response, each after
\* the write of the one before; the drain of every word frame has completed
\* before the next frame is written, at every suspension point; the stop
\* frame, the [DONE] frame and the terminating chunk are written back to back
\* with no drain between them, so the only frames that have a successor
\* without having been flushed are the stop frame and the [DONE] frame.
C4_FlushBetweenWordFrames ==
    \A c \in Conns :
        /\ Route(parsed[c].method, parsed[c].path) = "stream" =>
              IsPrefix(Labels(out[c]), StreamLabels)
        /\ \A k \in Frames(c) :
              (k < Len(out[c]) /\ k > flushed[c]) =>
                  Label(out[c][k]) \in {"stop", "[DONE]"}
        /\ \A k \in WordFrames(c) : k < Len(out[c]) => k <= flushed[c]

C4_Witness ==
    \E c \in Conns :
        /\ pc[c] = "drain"
        /\ Labels(out[c]) = StreamLabels
        /\ flushed[c] = 5

\* C5: every accepted connection is closed exactly once: writer.close() is
\* never called twice, it has not been called while the task runs, and it has
\* been called once when the task has ended, whether normally, by an
\* exception or by cancellation.
C5_ClosedExactlyOnce ==
    \A c \in Conns :
        /\ closes[c] <= 1
        /\ pc[c] = "closed" <=> closes[c] = 1
        /\ outcome[c] \in {"ok", "exception", "cancelled"} <=> pc[c] = "closed"

C5_Witness ==
    \E c, d \in Conns :
        /\ outcome[c] = "exception" /\ closes[c] = 1
        /\ outcome[d] = "cancelled" /\ closes[d] = 1

\* The complete response to request r: everything a task that handles r
\* without fault writes, in order.
Expected(r) ==
    IF Route(r.method, r.path) = "stream"
    THEN <<SseHeader>> \o [k \in 1..Len(Words) |-> WordFrame(k - 1)]
            \o <<StopFrame, DoneFrame, SseEnd>>
    ELSE <<Buffered(r)>>

\* Everything the model holds about connection c.
ConnState(c) ==
    <<pc[c], req[c], got[c], parsed[c], idx[c], out[c], flushed[c], closes[c],
      outcome[c], lenAtFail[c]>>

\* The step raises an exception in the task of a.
Fails(a) == outcome[a] # "exception" /\ outcome'[a] = "exception"

\* C6, the states: a connection whose task got an exception is closed, once,
\* and holds no byte written after the exception; every connection whose
\* task ended normally holds the complete response to its own request,
\* whatever happened to the others; a listening server with a connection
\* left to accept can accept it.
C6_ContainedState ==
    /\ \A a \in Conns :
          outcome[a] = "exception" =>
              /\ pc[a] = "closed"
              /\ closes[a] = 1
              /\ Len(out[a]) = lenAtFail[a]
    /\ \A d \in Conns : outcome[d] = "ok" => out[d] = Expected(parsed[d])
    /\ (listening /\ \E c \in Conns : pc[c] = "free") => ENABLED (\E c \in Conns : Accept(c))

\* C6, the steps: the step in which the task of a fails changes neither the
\* listening server nor anything of another connection, and no later step
\* writes to a.
C6_ContainedStep ==
    \A a \in Conns :
        /\ Fails(a) =>
              /\ listening' = listening
              /\ \A d \in Conns \ {a} : ConnState(d)' = ConnState(d)
        /\ outcome[a] = "exception" => out'[a] = out[a]

\* C6: a failure while reading, handling or writing on connection A is
\* contained in A's task: A is closed, nothing is written to A after the
\* failure, the server keeps listening and accepting, and every other
\* connection receives the response to its own request.
C6_FailureContained == [] C6_ContainedState /\ [][C6_ContainedStep]_vars

C6_Witness ==
    /\ outcome[1] = "exception"
    /\ Is(1, "POST", P_stream)
    /\ lenAtFail[1] > 2
    /\ outcome[2] = "ok"
    /\ out[2] = Expected(parsed[2])

\* C7: under every interleaving of the tasks at their suspension points, what
\* has been written to a connection is a prefix of the complete response to
\* the request decoded on that connection, nothing before the request is
\* decoded, and the whole response when the task has ended normally.
C7_OwnResponseOnly ==
    \A c \in Conns :
        /\ pc[c] \in {"free", "read"} => out[c] = <<>>
        /\ IsPrefix(out[c], Expected(parsed[c]))
        /\ outcome[c] = "ok" => out[c] = Expected(parsed[c])

C7_Witness ==
    \E c, d \in Conns :
        /\ c # d
        /\ pc[c] = "sleep_w" /\ Len(out[c]) > 2
        /\ pc[d] = "drain_w" /\ Len(out[d]) > 2

\* The task of connection 2 is resumed whenever it stays resumable: its peer
\* delivers the request, its timers expire, its drains return.  Nothing is
\* assumed of the other connections, whose tasks may stay suspended for ever.
SpecLive == Init /\ [][Next]_vars /\ WF_vars(Progress(2, ReqSet) /\ UNCHANGED <<rvars, tvars, ovars>>)

\* C8: an accepted connection whose peer sends its request is read, answered
\* and closed, whether or not the tasks of the other connections (suspended in
\* the 30-second delay, in a pacing sleep, in a drain or in a read from a
\* stalled peer) are ever resumed.
C8_OthersComplete == (pc[2] = "read") ~> (pc[2] = "closed")

C8_Witness ==
    /\ pc[1] = "sleep30"
    /\ pc[2] = "closed"
    /\ outcome[2] = "ok"
    /\ out[2] = Expected(parsed[2])

\* The literal routes.
LiteralRoutes ==
    {<<"GET", P_health>>, <<"POST", P_echo>>, <<"POST", P_stream>>,
     <<"POST", P_chat>>, <<"GET", P_models>>, <<"GET", P_timeout>>}

\* p is prefix followed by one or more decimal digits.
HasDigitsAfter(prefix, p) ==
    \E n \in 1..Len(p) :
        /\ Len(p) = Len(prefix) + n
        /\ \A k \in 1..Len(prefix) : p[k] = prefix[k]
        /\ \A k \in 1..n : IsDigit(p[Len(prefix) + k])

\* (m, p) is a literal route, GET /error/<digits> or GET /status/<digits>.
Routable(m, p) ==
    \/ <<m, p>> \in LiteralRoutes
    \/ m = "GET" /\ HasDigitsAfter(P_errorPrefix, p)
    \/ m = "GET" /\ HasDigitsAfter(P_statusPrefix, p)

\* C9: every (method, path) that is neither a literal route nor GET
\* /error/<digits> nor GET /status/<digits> is answered with one response of
\* status 404 and JSON {"error": "not found"}: unknown methods, known paths
\* with another method, and /error/<x>, /status/<x> with x empty or holding a
\* character that is no decimal digit.
C9_NotFound ==
    \A c \in Conns :
        (outcome[c] = "ok" /\ ~Routable(parsed[c].method, parsed[c].path)) =>
            /\ Len(out[c]) = 1
            /\ out[c][1].kind = "json"
            /\ out[c][1].status = 404
            /\ out[c][1].reason = "Not Found"
            /\ out[c][1].body = [error |-> "not found"]

C9_Witness ==
    \E c \in Conns :
        /\ outcome[c] = "ok"
        /\ parsed[c].method = "GET"
        /\ parsed[c].path = P_errorPrefix \o <<"4", "0", "x">>
        /\ out[c][1].status = 404

\* The representative codes: value, digits of the path, decimal text.
Codes ==
    {[n |-> 200, digits |-> <<"2", "0", "0">>, text |-> "200"],
     [n |-> 400, digits |-> <<"4", "0", "0">>, text |-> "400"],
     [n |-> 404, digits |-> <<"4", "0", "4">>, text |-> "404"],
     [n |-> 500, digits |-> <<"5", "0", "0">>, text |-> "500"],
     [n |-> 502, digits |-> <<"5", "0", "2">>, text |-> "502"]}

\* C10: for every code c of 200, 400, 404, 500, 502, GET /status/c is answered
\* with status c and JSON {"status": c, "description": "Status c"}, and GET
\* /error/c with status c and the envelope {"error": {"message": "Simulated
\* error c", "type": "server_error", "code": "error_c"}}.
C10_StatusAndError ==
    \A c \in Conns : \A code \in Codes :
        (outcome[c] = "ok" /\ parsed[c].method = "GET") =>
            /\ parsed[c].path = P_statusPrefix \o code.digits =>
                  /\ Len(out[c]) = 1
                  /\ out[c][1].kind = "json"
                  /\ out[c][1].status = code.n
                  /\ DOMAIN out[c][1].body = {"status", "description"}
                  /\ out[c][1].body.status = code.n
                  /\ out[c][1].body.description = "Status " \o code.text
            /\ parsed[c].path = P_errorPrefix \o code.digits =>
                  /\ Len(out[c]) = 1
                  /\ out[c][1].kind = "json"
                  /\ out[c][1].status = code.n
                  /\ DOMAIN out[c][1].body = {"error"}
                  /\ out[c][1].body.error =
                        [message |-> "Simulated error " \o code.text,
                         type |-> "server_error",
                         code |-> "error_" \o code.text]

C10_Witness ==
    \E c \in Conns :
        /\ outcome[c] = "ok"
        /\ parsed[c].method = "GET"
        /\ parsed[c].path = P_errorPrefix \o <<"5", "0", "2">>
        /\ out[c][1].status = 502
        /\ out[c][1].reason = "Bad Gateway"

\* ------------------------------------------------------------------ C11

\* The branches whose own condition the request decoded on c satisfies.
Matching(c) == {b \in BranchNames : Matches(b, parsed[c].method, parsed[c].path)}

\* C11: every decoded request satisfies the condition of at most one branch
\* of the chain, so the branch taken is the same in any order of the tests:
\* it is the one matching branch, or the 404 fallback when none matches.  GET
\* /error/timeout matches the delay branch and not the parametric error
\* branch, the two chat paths match only their own branch, no path matches
\* both parametric patterns, and the response written is the one of the
\* branch selected.
C11_OneHandler ==
    \A c \in Conns :
        parsed[c] # NoReq =>
            LET m == parsed[c].method
                p == parsed[c].path
            IN  /\ Cardinality(Matching(c)) <= 1
                /\ Matching(c) = {} => Route(m, p) = "notfound"
                /\ \A b \in Matching(c) : Route(m, p) = b
                /\ (m = "GET" /\ p = P_timeout) =>
                        /\ Matching(c) = {"timeout"}
                        /\ out[c] \in {<<>>, <<JsonResponse(TimeoutBody, 200)>>}
                /\ (m = "POST" /\ p = P_chat) => Matching(c) = {"chat"}
                /\ (m = "POST" /\ p = P_stream) => Matching(c) = {"stream"}
                /\ ~(FullMatch(P_errorPrefix, p) /\ FullMatch(P_statusPrefix, p))
                /\ (pc[c] = "closed" /\ Route(m, p) \notin {"stream", "timeout"}) =>
                        out[c] = <<Buffered(parsed[c])>>

\* GET /error/timeout was answered by the delay branch, and a request of the
\* parametric error branch by that one.
C11_Witness ==
    /\ Is(1, "GET", P_timeout)
    /\ pc[1] = "closed"
    /\ out[1] = <<JsonResponse(TimeoutBody, 200)>>
    /\ Matching(1) = {"timeout"}

\* ------------------------------------------------------------------ C12

\* The locals decoded from the bytes read on c.
HeadOn(c) == ParseHead(Received(c))

\* The header block read on c has no Content-Length header, or one whose
\* value is no number.
NoUsableLength(c) ==
    \/ ContentLengthName \notin DOMAIN HeadOn(c).headers
    \/ ~IsIntText(HeadOn(c).headers[ContentLengthName])

\* C12: a request whose Content-Length header is absent or not numeric has
\* declared length 0: no body read is awaited, and the request is decoded,
\* dispatched and answered like any other.
C12_NoLengthMeansZero ==
    \A c \in Conns :
        (pc[c] \notin {"free", "read"} /\ NoUsableLength(c)) =>
            /\ pc[c] # "read_body"
            /\ outcome[c] # "exception"
            /\ parsed[c] # NoReq
            /\ pc[c] = "closed" => Len(out[c]) = 1

\* ------------------------------------------------------------------ C13

\* The request line among the bytes read on c: the decoded bytes before the
\* first CRLF of the header block.
RequestLineOn(c) ==
    Partition(DecodeReplace(Partition(Received(c), Terminator).head), CRLF).head

\* C13: the decoded method is the request line up to its first space and
\* the decoded path what lies between the first space and the second (or
\* the end of the line); a request line without method token (empty, or no
\* bytes at all) gives method "GET", one without path token gives path "/".
C13_RequestLineDefaults ==
    \A c \in Conns :
        parsed[c] # NoReq =>
            LET line == RequestLineOn(c)
                first == Partition(line, <<" ">>)
                second == Partition(first.tail, <<" ">>)
            IN  /\ parsed[c].method = IF line = <<>> THEN "GET" ELSE Join(first.head)
                /\ parsed[c].path = IF first.found THEN second.head ELSE P_root

\* ------------------------------------------------------------------ C14

\* C14: decoding never fails, whatever the header block (lines without a
\* colon, an empty or one-token request line, bytes invalid in UTF-8, any
\* header values): with no transport fault no exception ends the task, and a
\* closed connection has had its request dispatched and a response written.
C14_DecodingNeverFails ==
    \A c \in Conns :
        /\ outcome[c] # "exception"
        /\ pc[c] = "closed" =>
                /\ parsed[c] # NoReq
                /\ Len(out[c]) >= 1
                /\ closes[c] = 1

\* ------------------------------------------------------------------ C15

\* The length the request read on c declares: its Content-Length, 0 without
\* a usable one.
DeclaredLength(c) ==
    IF NoUsableLength(c) THEN 0 ELSE IntText(HeadOn(c).headers[ContentLengthName])

\* C15: when no read met the end of the stream, the decoded body has
\* exactly the declared number of bytes, whatever number of bytes the reads
\* of the header loop delivered after the terminator.
C15_BodyHasDeclaredLength ==
    \A c \in Conns :
        (parsed[c] # NoReq /\ ~eof[c]) => Len(parsed[c].body) = DeclaredLength(c)

\* ------------------------------------------------------------------ C16

\* C16: once a read returned no byte (the peer closed before the terminator
\* or before the declared body arrived), reading is over and no error was
\* raised: the request was dispatched, its body being the bytes received
\* after the terminator, none when the terminator never came.
C16_EofEndsReading ==
    \A c \in Conns :
        eof[c] =>
            /\ ReadEnded(c)
            /\ outcome[c] # "exception"
            /\ parsed[c] # NoReq
            /\ parsed[c].body = Partition(Received(c), Terminator).tail
            /\ Len(parsed[c].body) <= pos[c]

\* ------------------------------------------------------------------ C17

\* The positions of out[c] that hold the header block of a response.
ResponseHeads(c) ==
    {i \in 1..Len(out[c]) : out[c][i].kind \in {"json", "sse_header"}}

\* One response at most was written on c, its header block says
\* Connection: close, and so does the header block of the stream.
C17_OneResponse ==
    /\ SseHeader.connection = "close"
    /\ \A c \in Conns :
         /\ Cardinality(ResponseHeads(c)) <= 1
         /\ \A i \in ResponseHeads(c) : out[c][i].connection = "close"
         /\ pc[c] = "closed" => closes[c] = 1

\* Once the request of c was read, no byte of the peer is read any more and
\* the decoded request stays; once c is closed nothing more is written.
C17_NoSecondRead ==
    \A c \in Conns :
        /\ ReadEnded(c) =>
              /\ ReadEnded(c)'
              /\ pos'[c] = pos[c]
              /\ parsed'[c] = parsed[c]
        /\ pc[c] = "closed" => out'[c] = out[c]

\* C17: a connection carries at most one request-response cycle: after the
\* first response it is closed and no second request is read or answered,
\* also when the peer sent more bytes, and every response header block says
\* Connection: close.
C17_OneCycle == [] C17_OneResponse /\ [][C17_NoSecondRead]_vars

\* A connection was answered and closed while bytes its peer sent after the
\* request were never read.
C17_Witness ==
    /\ pc[1] = "closed"
    /\ ~eof[1]
    /\ pos[1] < Len(stream[1])
    /\ Cardinality(ResponseHeads(1)) = 1

\* ------------------------------------------------------------------ C18

\* C18: on a connection whose request is GET /error/timeout no byte is
\* written before 30 seconds have passed since the request was dispatched:
\* whoever stops waiting earlier has seen nothing.  What is written once the
\* delay is over is the one response of status 200 and body
\* {"error": "timeout"}.
C18_NoByteBeforeDelay ==
    \A c \in Conns :
        Is(c, "GET", P_timeout) =>
            /\ now - since[c] < 30 => out[c] = <<>>
            /\ pc[c] = "sleep30" => out[c] = <<>>
            /\ out[c] # <<>> =>
                  /\ now - since[c] >= 30
                  /\ out[c] = <<JsonResponse(TimeoutBody, 200)>>
                  /\ out[c][1].status = 200
            /\ pc[c] = "closed" => out[c] # <<>>

\* The delayed response was written, 30 seconds or more after the request.
C18_Witness ==
    /\ Is(1, "GET", P_timeout)
    /\ pc[1] = "closed"
    /\ out[1] = <<JsonResponse(TimeoutBody, 200)>>
    /\ now - since[1] >= 30

\* ------------------------------------------------------------------ C19

\* Connections that decoded the same request and ended without exception
\* wrote the same response, whatever was handled before or meanwhile; GET
\* /health is answered 200 {"status": "ok"} every time.
C19_SameRequestSameResponse ==
    \A c, d \in Conns :
        /\ (outcome[c] = "ok" /\ outcome[d] = "ok" /\ parsed[c] = parsed[d]) =>
                out[c] = out[d]
        /\ (outcome[c] = "ok" /\ Is(c, "GET", P_health)) =>
                out[c] = <<JsonResponse(HealthBody, 200)>>
        /\ outcome[c] = "ok" => out[c] = <<Buffered(parsed[c])>>

\* A step of a connection's task leaves the listening handle as it is.
C19_ServerStateKept ==
    (\E c \in Conns : pc[c] # "free" /\ ConnState(c)' # ConnState(c)) =>
        listening' = listening

\* C19: handling is stateless across connections: the response depends on
\* the request of its own connection only, GET /health gives 200 {"status":
\* "ok"} any number of times and in any order with other requests, and
\* handling a request changes no state of the server object.
C19_Stateless == [] C19_SameRequestSameResponse /\ [][C19_ServerStateKept]_vars

\* GET /health was answered twice, the second time after another connection
\* had been handled in between or had failed.
C19_Witness ==
    /\ Is(1, "GET", P_health) /\ outcome[1] = "ok"
    /\ Is(2, "GET", P_health) /\ outcome[2] = "ok"
    /\ out[1] = out[2]
    /\ out[2] = <<JsonResponse(HealthBody, 200)>>

\* ------------------------------------------------------------------ C20

\* The header lines of the byte stream s, as sent.
SentHeaderLines(s) ==
    LET head == Partition(s, Terminator).head
    IN  Tail(SplitOn(head, CRLF, Len(head)))

\* The header lines of s that hold a colon.
SentHeaders(s) ==
    {i \in 1..Len(SentHeaderLines(s)) : FindSub(SentHeaderLines(s)[i], <<":">>) # 0}

\* The lower-cased, trimmed name and the trimmed value of a header line.
NameOf(line) == Lower(Strip(DecodeReplace(Partition(line, <<":">>).head)))
ValueOf(line) == Strip(DecodeReplace(Partition(line, <<":">>).tail))

\* s is a POST /echo request with a header set and a body: the request
\* line, header lines of different names, the terminator and the body, whose
\* length Content-Length gives (no Content-Length when there is no body).
EchoRequest(s) ==
    LET cut == Partition(s, Terminator)
        ls == SentHeaderLines(s)
        L == {i \in SentHeaders(s) : NameOf(ls[i]) = ContentLengthName}
    IN  /\ cut.found
        /\ Partition(cut.head, CRLF).head = EchoLine
        /\ \A i, j \in SentHeaders(s) : i # j => NameOf(ls[i]) # NameOf(ls[j])
        /\ IF L = {} THEN cut.tail = <<>>
           ELSE \A i \in L : /\ IsIntText(ValueOf(ls[i]))
                             /\ IntText(ValueOf(ls[i])) = Len(cut.tail)

\* C20: a POST /echo request with body B and header set H, read to its end,
\* is answered with status 200 and a JSON object whose "body" is B decoded as
\* UTF-8 with each invalid byte replaced, and whose "headers" holds every
\* header of H under its lower-cased name with its trimmed value.
C20_Echo ==
    \A c \in Conns :
        (ReadEnded(c) /\ ~eof[c] /\ EchoRequest(stream[c])) =>
            LET B == Partition(stream[c], Terminator).tail
                ls == SentHeaderLines(stream[c])
            IN  /\ pos[c] = Len(stream[c])
                /\ outcome[c] # "exception"
                /\ Len(out[c]) = 1
                /\ out[c][1].status = 200
                /\ out[c][1].contentType = "application/json"
                /\ Len(out[c][1].body.body) = Len(B)
                /\ \A k \in 1..Len(B) :
                      out[c][1].body.body[k] = IF B[k] = "0xFF" THEN "U+FFFD" ELSE B[k]
                /\ \A i \in SentHeaders(stream[c]) :
                      /\ NameOf(ls[i]) \in DOMAIN out[c][1].body.headers
                      /\ out[c][1].body.headers[NameOf(ls[i])] = ValueOf(ls[i])
                /\ (\E i \in SentHeaders(stream[c]) :
                        ls[i] = <<"X", "-", "A", " ", ":", " ", "1", " ">>) =>
                      out[c][1].body.headers[<<"x", "-", "a">>] = <<"1">>

\* POST /echo with a body holding an invalid byte and a header with spaces
\* and capitals was answered.
C20_Witness ==
    /\ pc[1] = "closed"
    /\ ~eof[1]
    /\ EchoRequest(stream[1])
    /\ out[1][1].body.body = <<"a", "U+FFFD">>
    /\ <<"x", "-", "a">> \in DOMAIN out[1][1].body.headers
    /\ out[1][1].body.headers[<<"x", "-", "a">>] = <<"1">>

\* ------------------------------------------------------------------ C22

\* The phase of a connection, by the await its task is suspended in:
\* 0 not accepted, 1 reading, 2 decoded and dispatched (writing), 3 closed.
PhaseRank(p) ==
    CASE p = "free" -> 0
      [] p \in {"read", "read_body"} -> 1
      [] p \in {"drain_w", "sleep_w", "sleep30", "drain"} -> 2
      [] p = "closed" -> 3

\* Nothing is decoded or written while reading; whatever was written was
\* written for a decoded request; a dispatched connection has its request.
C22_PhaseState ==
    \A c \in Conns :
        /\ PhaseRank(pc[c]) <= 1 => (parsed[c] = NoReq /\ out[c] = <<>>)
        /\ PhaseRank(pc[c]) = 2 => parsed[c] # NoReq
        /\ out[c] # <<>> => parsed[c] # NoReq

\* A step never takes a connection back to an earlier phase, reads nothing
\* once the request is dispatched, writes only in or into the dispatched
\* phase and never on a closed connection, and decodes and dispatches a
\* request once at most.
C22_PhaseStep ==
    \A c \in Conns :
        /\ PhaseRank(pc'[c]) >= PhaseRank(pc[c])
        /\ PhaseRank(pc[c]) >= 2 => (got'[c] = got[c] /\ req'[c] = req[c])
        /\ out'[c] # out[c] => (PhaseRank(pc[c]) \in {1, 2} /\ PhaseRank(pc'[c]) = 2)
        /\ pc[c] = "closed" => (out'[c] = out[c] /\ closes'[c] = closes[c])
        /\ parsed'[c] # parsed[c] =>
              (parsed[c] = NoReq /\ PhaseRank(pc[c]) = 1 /\ PhaseRank(pc'[c]) = 2)

\* C22: a connection goes through its phases in one direction only
\* (accepted, reading, decoded and dispatched, writing, closed): no read
\* after dispatch, no write before the request is read and decoded, no write
\* after close, and the handler is invoked once at most.
C22_LinearPhases == [] C22_PhaseState /\ [][C22_PhaseStep]_vars

\* A connection went through every phase and wrote a whole stream.
C22_Witness ==
    \E c \in Conns :
        /\ pc[c] = "closed"
        /\ outcome[c] = "ok"
        /\ parsed[c] # NoReq
        /\ Len(out[c]) = Len(Words) + 4
        /\ got[c] = 0

\* ------------------------------------------------------------------ C26

\* On a connection that ended without exception everything written has
\* been flushed, for a stream up to the terminating chunk.
C26_AllFlushed ==
    \A c \in Conns :
        outcome[c] = "ok" =>
            /\ closes[c] = 1
            /\ flushed[c] = Len(out[c])
            /\ out[c] = Expected(parsed[c])

\* The close of such a connection is the step in which the drain of _client
\* returns: nothing is written in it and all that was written is flushed.
C26_CloseStep ==
    \A c \in Conns :
        (closes'[c] # closes[c] /\ outcome'[c] = "ok") =>
            /\ pc[c] = "drain"
            /\ out'[c] = out[c]
            /\ flushed'[c] = Len(out[c])

\* C26: without exception the connection is closed only after the drain
\* that follows the handler's last write has completed: every byte the
\* handler wrote, for a stream the stop frame, the [DONE] frame and the
\* terminating chunk included, is flushed before close is called.
C26_ClosedAfterLastDrain == [] C26_AllFlushed /\ [][C26_CloseStep]_vars

\* A stream was closed with its last three frames flushed by the final
\* drain only.
C26_Witness ==
    \E c \in Conns :
        /\ outcome[c] = "ok"
        /\ Labels(out[c]) = StreamLabels
        /\ flushed[c] = Len(StreamLabels)
        /\ closes[c] = 1

\* ------------------------------------------------------------------ C24

\* The last header line of the bytes s that has the name of line i.
LastOfName(s, i) ==
    LET ls == SentHeaderLines(s)
        J == {j \in SentHeaders(s) : NameOf(ls[j]) = NameOf(ls[i])}
    IN  CHOOSE j \in J : \A k \in J : k <= j

\* C24: the decoded header mapping has one entry for each name found in the
\* lines after the request line that hold a colon: the name is what stands
\* before the first colon, trimmed and lower-cased, the value what stands
\* after it, trimmed, taken from the last line of that name; lines without
\* a colon add nothing and change no other entry.
C24_HeaderMapping ==
    \A c \in Conns :
        parsed[c] # NoReq =>
            LET s == Received(c)
                ls == SentHeaderLines(s)
                H == parsed[c].headers
            IN  /\ DOMAIN H = {NameOf(ls[i]) : i \in SentHeaders(s)}
                /\ \A i \in SentHeaders(s) :
                      H[NameOf(ls[i])] = ValueOf(ls[LastOfName(s, i)])
                /\ \A i, j \in SentHeaders(s) :
                      (/\ i < j
                       /\ ls[i] = <<"X", "-", "A", " ", ":", " ", "1", " ">>
                       /\ ls[j] = <<"x", "-", "a", ":", "2">>) =>
                            H[<<"x", "-", "a">>] = <<"2">>
                /\ \A n \in DOMAIN H :
                      /\ \A k \in 1..Len(n) : \A u \in 1..Len(UpperCase) : n[k] # UpperCase[u]
                      /\ n # <<>> => (n[1] \notin WhiteSpace /\ n[Len(n)] \notin WhiteSpace)
                      /\ H[n] # <<>> =>
                            (H[n][1] \notin WhiteSpace /\ H[n][Len(H[n])] \notin WhiteSpace)

\* Two lines of one name in different spellings were decoded, the later
\* one kept.
C24_Witness ==
    /\ pc[1] = "closed"
    /\ parsed[1].headers = (<<"x", "-", "a">> :> <<"2">>)
    /\ Len(SentHeaderLines(Received(1))) = 2

\* ------------------------------------------------------------------ C25

\* What _read_request returns for the bytes s when every read returns one
\* byte: the header loop stops at the last byte of the terminator, and the
\* body loop reads the bytes that follow up to the declared length.
OneByteReads(s) ==
    LET h == ParseHead(s)
        n == ContentLength(h)
    IN  [method |-> h.method, path |-> h.path, headers |-> h.headers,
         body |-> IF n >= Len(h.body_start) THEN h.body_start
                  ELSE IF n <= 0 THEN <<>>
                  ELSE SubSeq(h.body_start, 1, n)]

\* C25: the decoded request does not depend on how the stream is cut into
\* reads: whatever the reads returned, it is the request that reads of one
\* byte each give for the same bytes, also when bytes follow the terminator
\* and Content-Length is absent or smaller than their number.
C25_SegmentationFree ==
    \A c \in Conns :
        parsed[c] # NoReq => parsed[c] = OneByteReads(Received(c))

\* ------------------------------------------------------------------ C27

\* The bytes read on c hold a whole request: the terminator and, after it,
\* as many bytes as declared (or a Content-Length that int() rejects).
WholeRequest(c) ==
    /\ FindSub(Received(c), Terminator) # 0
    /\ \/ IntRaises(ContentLengthText(HeadOn(c).headers))
       \/ Len(HeadOn(c).body_start) >= ContentLength(HeadOn(c))

\* The peer of c has sent all its bytes, which are no whole request, and
\* keeps its side open.
Stalled(c) ==
    /\ pc[c] \in {"read", "read_body"}
    /\ pos[c] = Len(stream[c])
    /\ ~eof[c]

\* A connection is closed only when its peer delivered a whole request or
\* closed; while the peer does neither, no step of the server is possible on
\* the connection: there is no read timeout.  A connection that is neither
\* closed nor waiting for its peer can take a step: bytes of the peer are
\* left to read, or the drain can complete.
C27_NoReadTimeout ==
    \A c \in Conns :
        /\ pc[c] = "closed" => (eof[c] \/ WholeRequest(c))
        /\ ReadEnded(c) => (eof[c] \/ WholeRequest(c))
        /\ eof[c] => ReadEnded(c)
        /\ pos[c] <= Len(stream[c])
        /\ (c = 1 /\ Stalled(c)) =>
              /\ ~WholeRequest(c)
              /\ ~ENABLED (\E k \in 1..Len(stream[1]) : RdHeader(1, k))
              /\ ~ENABLED (\E k \in 1..Len(stream[1]) : RdBody(1, k))
              /\ ~ENABLED Drain(1)
        /\ (c = 1 /\ pc[c] = "drain") => ENABLED Drain(1)
        /\ (pc[c] \in {"read", "read_body"} /\ ~Stalled(c)) => pos[c] < Len(stream[c])

\* Every step on an accepted connection takes it forward: to a later phase,
\* or to more bytes read.
C27_Advances ==
    \A c \in Conns :
        (pc'[c] # pc[c] \/ pos'[c] # pos[c]) =>
            \/ PhaseRank(pc'[c]) > PhaseRank(pc[c])
            \/ PhaseRank(pc'[c]) = PhaseRank(pc[c]) /\ pos'[c] > pos[c]

\* C27: an accepted connection is eventually closed when its peer goes on
\* to deliver the terminator and the declared body or to close, and writes
\* complete or fail: every step takes the connection forward in a bounded
\* order, and only a closed connection or one waiting for its peer has no
\* step to take.  A peer that neither sends the rest nor closes keeps the
\* connection reading, and it is not closed.
C27_ClosedIfPeerGoesOn == [] C27_NoReadTimeout /\ [][C27_Advances]_vars

\* A peer sent a header block that declares more body bytes than follow and
\* keeps its side open: the connection waits in the body loop.
C27_Witness ==
    /\ pc[1] = "read_body"
    /\ pos[1] = Len(stream[1])
    /\ ~eof[1]
    /\ closes[1] = 0

\* ------------------------------------------------------------------------
\* C28: methods are matched by case-sensitive equality and paths by exact
\* equality or by a full match of the pattern, against the path token as
\* received: a request whose line is "get /health", "GET /health?x=1",
\* "GET /health/" or "GET /status/200?x=1" meets the condition of no branch
\* and is answered 404 {"error": "not found"}.
C28_ExactMatching ==
    \A c \in Conns :
        (parsed[c] # NoReq /\ RequestLineOn(c) \in NearMissLines) =>
            /\ parsed[c].path = Partition(Partition(RequestLineOn(c), <<" ">>).tail, <<" ">>).head
            /\ Matching(c) = {}
            /\ Route(parsed[c].method, parsed[c].path) = "notfound"
            /\ pc[c] \in {"drain", "closed"}
            /\ out[c] = <<JsonResponse(NotFoundBody, 404)>>

\* Each of the four requests was read whole and answered.
C28_Witness ==
    /\ pc[1] = "closed"
    /\ outcome[1] = "ok"
    /\ RequestLineOn(1) = HealthQueryLine
    /\ out[1] = <<JsonResponse(NotFoundBody, 404)>>

\* ------------------------------------------------------------------------
\* The step is a call of stop(), or the return of one.
StopStep ==
    \/ call' # call
    \/ last' \in {"stopped", "noop"} /\ last' # last
    \/ server' = 0 /\ server # 0

\* C29, the states: after stop() the handle is cleared; every open listener
\* is the one the handle holds, so that a later stop() closes it; a server
\* that holds a listener accepts connections.
C29_HandleState ==
    /\ (call = "idle" /\ last \in {"stopped", "noop"}) => server = 0
    /\ open \subseteq {server}
    /\ (call = "idle" /\ server # 0 /\ \E c \in Conns : pc[c] = "free") =>
          ENABLED (\E c \in Conns : AcceptOn(c, server))

\* C29, the steps: stop() on a server that was never started or is stopped
\* changes nothing and raises nothing; a start() after a stop() opens a
\* listener that the handle holds.
C29_HandleStep ==
    /\ (call = "idle" /\ server = 0 /\ last # "noop" /\ last' = "noop") =>
          /\ UNCHANGED <<listening, connvars, server, open, made, via, call>>
    /\ (last = "stopped" /\ last' = "started") => (server' \in open' /\ listening')

\* C29: for any sequence of start() and stop() calls on one server, stop()
\* on a server never started or already stopped does nothing and raises no
\* error; after stop() the handle is cleared; a start() after a stop()
\* accepts connections again; and the server never holds a listening handle
\* that a later stop() cannot close: a second start() without a stop()
\* between does not leave an earlier listener unreachable.
C29_StartStopSequences == [] C29_HandleState /\ [][C29_HandleStep]_vars

\* C21, the states: after stop() has returned, no listening socket is open
\* and no connection can be accepted; a handler inside the 30-second delay
\* can still be resumed, and no task is ever cancelled.
C21_StoppedState ==
    /\ (call = "idle" /\ last \in {"stopped", "noop"}) =>
          /\ open = {}
          /\ ~listening
          /\ ~ENABLED (\E c \in Conns, l \in 1..MaxStarts : AcceptOn(c, l))
    /\ \A c \in Conns :
          /\ pc[c] = "sleep30" => ENABLED Sleep30(c)
          /\ outcome[c] \in {"none", "ok"}
          /\ pc[c] = "closed" => (outcome[c] = "ok" /\ out[c] = Expected(parsed[c]))

\* C21, the steps: a call of stop() changes nothing of any connection.
C21_StopStepKeeps ==
    StopStep => \A c \in Conns : ConnState(c)' = ConnState(c)

\* C21: after stop() returns the listening socket is released and no new
\* connection is accepted; stop() does not cancel or close a connection
\* whose handler is still running: that handler runs to its completion and
\* closes its connection itself.
C21_StopReleasesAndSpares == [] C21_StoppedState /\ [][C21_StopStepKeeps]_vars

\* ------------------------------------------------------------------------
\* The value of a hexadecimal digit, of either case.
HexDigitValue(ch) ==
    IF \E i \in 1..16 : HexDigits[i] = ch
    THEN (CHOOSE i \in 1..16 : HexDigits[i] = ch) - 1
    ELSE CASE ch = "A" -> 10 [] ch = "B" -> 11 [] ch = "C" -> 12
           [] ch = "D" -> 13 [] ch = "E" -> 14 [] ch = "F" -> 15

IsHexText(t) ==
    /\ t # <<>>
    /\ \A i \in 1..Len(t) : t[i] \in {HexDigits[j] : j \in 1..16} \cup {"A", "B", "C", "D", "E", "F"}

RECURSIVE HexNum(_)
HexNum(t) ==
    IF t = <<>> THEN 0
    ELSE 16 * HexNum(SubSeq(t, 1, Len(t) - 1)) + HexDigitValue(t[Len(t)])

\* Chunked-transfer decoding of the bytes w, as a client does it: the
\* chunks read (size line and data), whether the terminating chunk was read
\* ("done"), the bytes ended between two chunks ("more") or are not a
\* chunked body ("bad"), and the bytes after the terminating chunk.
RECURSIVE Dechunk(_)
Dechunk(w) ==
    IF w = <<>> THEN [state |-> "more", chunks |-> <<>>, rest |-> <<>>]
    ELSE
        LET line == Partition(w, CRLF)
            n == HexNum(line.head)
            bad == [state |-> "bad", chunks |-> <<>>, rest |-> w]
        IN  IF ~line.found \/ ~IsHexText(line.head) THEN bad
            ELSE IF n = 0
            THEN IF Len(line.tail) >= 2 /\ SubSeq(line.tail, 1, 2) = CRLF
                 THEN [state |-> "done", chunks |-> <<>>,
                       rest |-> SubSeq(line.tail, 3, Len(line.tail))]
                 ELSE bad
            ELSE IF Len(line.tail) < n + 2 \/ SubSeq(line.tail, n + 1, n + 2) # CRLF
            THEN bad
            ELSE LET r == Dechunk(SubSeq(line.tail, n + 3, Len(line.tail)))
                 IN  [state |-> r.state,
                      chunks |-> <<[size |-> line.head, data |-> SubSeq(line.tail, 1, n)]>>
                                    \o r.chunks,
                      rest |-> r.rest]

\* The data of the chunks, one after the other: the decoded body.
RECURSIVE BodyOf(_)
BodyOf(chunks) == IF chunks = <<>> THEN <<>> ELSE chunks[1].data \o BodyOf(Tail(chunks))

\* The bytes bs hold the UTF-8 bytes of ch from position k on.
StartsChar(bs, k, ch) ==
    /\ k >= 1
    /\ k + Len(Utf8Of(ch)) - 1 <= Len(bs)
    /\ SubSeq(bs, k, k + Len(Utf8Of(ch)) - 1) = Utf8Of(ch)

\* UTF-8 decoding of the bytes bs: a lead byte gives its character, the
\* bytes that continue it give nothing.
Utf8Decode(bs) ==
    LET at == [k \in 1..Len(bs) |->
                 IF StartsChar(bs, k, UDigit3) THEN UDigit3
                 ELSE IF StartsChar(bs, k, "U+FFFD") THEN "U+FFFD"
                 ELSE IF StartsChar(bs, k - 1, UDigit3) \/ StartsChar(bs, k - 1, "U+FFFD")
                         \/ StartsChar(bs, k - 2, "U+FFFD")
                 THEN "continuation"
                 ELSE bs[k]]
        kept(x) == x # "continuation"
    IN  SelectSeq(at, kept)

DataField == <<"d", "a", "t", "a", ":">>

\* The values of the data lines among lines: what follows "data:", less
\* one leading space.
RECURSIVE DataValues(_)
DataValues(lines) ==
    IF lines = <<>> THEN <<>>
    ELSE LET l == lines[1]
             v == SubSeq(l, Len(DataField) + 1, Len(l))
         IN  IF Len(l) >= Len(DataField) /\ SubSeq(l, 1, Len(DataField)) = DataField
             THEN <<IF v # <<>> /\ v[1] = " " THEN Tail(v) ELSE v>> \o DataValues(Tail(lines))
             ELSE DataValues(Tail(lines))

\* The values joined by line feeds.
RECURSIVE JoinData(_)
JoinData(vals) ==
    IF Len(vals) = 1 THEN vals[1] ELSE vals[1] \o <<LF>> \o JoinData(Tail(vals))

\* The data of the events of the blocks that hold a data line.
RECURSIVE EventsOf(_)
EventsOf(blocks) ==
    IF blocks = <<>> THEN <<>>
    ELSE LET vals == DataValues(SplitOn(blocks[1], <<LF>>, Len(blocks[1])))
         IN  IF vals = <<>> THEN EventsOf(Tail(blocks))
             ELSE <<JoinData(vals)>> \o EventsOf(Tail(blocks))

\* SSE parsing of a text: the data of the events dispatched, in order.  An
\* event is dispatched at the blank line that ends its block; what follows
\* the last blank line is not one.
SseParse(text) ==
    LET blocks == SplitOn(text, <<LF, LF>>, Len(text))
    IN  EventsOf(SubSeq(blocks, 1, Len(blocks) - 1))

\* C23: every SSE event is one HTTP chunk whose hexadecimal length prefix
\* equals the byte length of its payload "data: <payload>\n\n", followed by
\* CRLF, the payload and CRLF, and the stream ends with the zero-length
\* chunk; chunked-transfer decoding of what was written and then SSE
\* data-line parsing returns exactly the payloads emitted, in order.
C23_ChunkedSseRoundTrip ==
    LET d == Dechunk(wire) IN
        /\ d.state = IF ended THEN "done" ELSE "more"
        /\ d.rest = <<>>
        /\ Len(d.chunks) = emitted
        /\ \A i \in 1..Len(d.chunks) :
              /\ HexNum(d.chunks[i].size) = Len(d.chunks[i].data)
              /\ Utf8Decode(d.chunks[i].data) =
                    <<"d", "a", "t", "a", ":", " ">> \o payloads[i] \o <<LF, LF>>
              /\ SseParse(Utf8Decode(d.chunks[i].data)) = <<payloads[i]>>
        /\ SseParse(Utf8Decode(BodyOf(d.chunks))) = SubSeq(payloads, 1, emitted)

\* A stream of two events was written to its end, the first with a length
\* of two hexadecimal digits, and decoded to its payloads.
C23_Witness ==
    /\ ended
    /\ emitted = 2
    /\ Len(Dechunk(wire).chunks[1].size) = 2
    /\ payloads[2] = DoneChars
    /\ SseParse(Utf8Decode(BodyOf(Dechunk(wire).chunks))) = payloads

\* ------------------------------------------------------------------------
\* C30: in the e2e command, whatever the command started is stopped before
\* it exits, on every exit path: a local hyperspot-server process it
\* started is terminated, a docker-compose environment it started is
\* brought down, also when the readiness wait that follows the start times
\* out and when pytest fails; the exit status is pytest's return code
\* whenever pytest was run.
C30_CleanupOnEveryExit ==
    cpc = "exited" =>
        /\ ~procUp
        /\ ~envUp
        /\ exit_code # -1 => exited = exit_code

====
